---- MODULE Spec2Model ----
(***************************************************************************)
(* Model of the presentation API: the single-table presentation store      *)
(* (src/libs/presentationRepo.ts), the HTTP handlers that call it and the  *)
(* SQS worker that generates a presentation (src/handlers/sqs).            *)
(*                                                                         *)
(* A DynamoDB item is a function from the names of the attributes it       *)
(* carries to their values: an attribute the item lacks is not in its      *)
(* DOMAIN.  The table is a function from the keys present to their items.  *)
(***************************************************************************)
EXTENDS Integers, Sequences, FiniteSets, TLC

(***************************************************************************)
(* Bounds of the model.                                                    *)
(***************************************************************************)
MaxPresentations == 1   \* presentations ever created
MaxSlides == 2          \* longest slide list the generation client returns
MaxClock == 2           \* largest value of Date.now()
NumWorkers == 1         \* concurrent invocations of the SQS consumer
MaxReceives == 2        \* deliveries of one job message
NumClients == 2         \* concurrent callers of the repository
MaxUnprocessed == 1     \* items a batch delete of one request leaves unprocessed

(***************************************************************************)
(* Program constants.                                                      *)
(***************************************************************************)
BatchLimit == 25        \* records per BatchWriteCommand
PadWidth == 3           \* width of the slide index in the sort key

Ids == 1..MaxPresentations
Workers == 1..NumWorkers
Clients == 1..NumClients
Times == 1..MaxClock
SlideValues == {"s1", "s2"}
Users == {"a@x.com", "b@x.com"}
AnonymousUser == "anonymous@dev.local"

\* JavaScript's undefined, for a string-valued parameter or field.
Undefined == "undefined"
\* JavaScript truthiness of a string-valued optional.
Truthy(s) == s # Undefined /\ s # ""

\* null (no item, no object): the function with no attribute.
Null == [a \in {} |-> TRUE]

\* The attributes that hold a string or undefined.
OptionalAttrs == {"title", "description", "theme", "errorMessage", "connectionId"}

\* The object o with the properties whose value is undefined dropped
\* (marshallOptions.removeUndefinedValues).
removeUndefinedValues(o) ==
    [a \in {b \in DOMAIN o : ~(b \in OptionalAttrs /\ o[b] = Undefined)} |-> o[a]]

\* o.a for a string-valued property: undefined when o lacks it.
Attr(o, a) == IF a \in DOMAIN o THEN o[a] ELSE Undefined

\* The subsets of S of at most n elements.
RECURSIVE UpTo(_, _)
UpTo(S, n) ==
    IF n = 0 THEN {{}}
    ELSE LET smaller == UpTo(S, n - 1)
         IN  smaller \cup {u \cup {x} : u \in smaller, x \in S}

Min(a, b) == IF a < b THEN a ELSE b

(***************************************************************************)
(* Keys.                                                                   *)
(***************************************************************************)
RECURSIVE Digits(_)
\* String(n): the decimal digits of n.
Digits(n) == IF n < 10 THEN <<n>> ELSE Digits(n \div 10) \o <<n % 10>>

\* String(n).padStart(width, "0")
padStart(n, width) ==
    LET d == Digits(n)
    IN  IF Len(d) >= width THEN d ELSE [i \in 1..(width - Len(d)) |-> 0] \o d

createPK(presentationId) == <<"PRESENTATION#", presentationId>>

\* createSK("METADATA") and createSK("SLIDE", slideIndex); slideIndex = -1
\* stands for an omitted argument.
createSK(type, slideIndex) ==
    IF type = "SLIDE" /\ slideIndex # -1
    THEN <<"SLIDE#">> \o padStart(slideIndex, PadWidth)
    ELSE <<"METADATA">>

createGSI1PK(userId) == <<"USER#", userId>>

createGSI1SK(presentationId) == <<"PRESENTATION#", presentationId>>

Key(pk, sk) == [pk |-> pk, sk |-> sk]
MetadataKey(presentationId) == Key(createPK(presentationId), createSK("METADATA", -1))
SlideKey(presentationId, slideIndex) ==
    Key(createPK(presentationId), createSK("SLIDE", slideIndex))

(***************************************************************************)
(* The storage primitives, on a table value.                               *)
(***************************************************************************)
\* GetCommand: the item at the key, or null.
GetItem(tbl, key) == IF key \in DOMAIN tbl THEN tbl[key] ELSE Null

\* PutCommand: the item replaces whatever the key held.
PutItem(tbl, item) == (Key(item.pk, item.sk) :> item) @@ tbl

\* UpdateCommand with a SET expression: the named attributes are set on the
\* item at the key, which is created when absent (an upsert).
UpdateItem(tbl, key, sets) ==
    LET old == IF key \in DOMAIN tbl THEN tbl[key] ELSE [pk |-> key.pk, sk |-> key.sk]
    IN  (key :> (sets @@ old)) @@ tbl

\* QueryCommand on the table: the keys of the partition.
QueryPartition(tbl, pk) == {k \in DOMAIN tbl : k.pk = pk}

\* QueryCommand, pk = :pk AND begins_with(sk, "SLIDE#").
QuerySlides(tbl, pk) == {k \in DOMAIN tbl : k.pk = pk /\ k.sk[1] = "SLIDE#"}

\* BatchWriteCommand of put requests: every request is written except those
\* at the positions in unprocessed, which come back as UnprocessedItems.
RECURSIVE BatchPut(_, _, _)
BatchPut(tbl, requests, unprocessed) ==
    IF requests = <<>> THEN tbl
    ELSE LET n == Len(requests)
             rest == BatchPut(tbl, SubSeq(requests, 1, n - 1), unprocessed)
         IN  IF requests[n].slideIndex \in unprocessed
             THEN rest
             ELSE PutItem(rest, requests[n])

\* BatchWriteCommand of delete requests.
BatchDelete(tbl, keys) == [k \in DOMAIN tbl \ keys |-> tbl[k]]

(***************************************************************************)
(* PresentationRepository.                                                 *)
(***************************************************************************)
MetadataFields ==
    {"id", "title", "description", "userId", "status", "createdAt",
     "updatedAt", "theme", "errorMessage"}

\* getPresentationMetadata: the metadata fields of the item, or null.
getPresentationMetadata(tbl, presentationId) ==
    LET item == GetItem(tbl, MetadataKey(presentationId))
    IN  IF item = Null THEN Null
        ELSE [a \in DOMAIN item \cap MetadataFields |-> item[a]]

RECURSIVE SortBySlideIndex(_)
\* slideItems.sort((a, b) => a.slideIndex - b.slideIndex)
SortBySlideIndex(items) ==
    IF items = {} THEN <<>>
    ELSE LET first == CHOOSE x \in items : \A y \in items : x.slideIndex <= y.slideIndex
         IN  <<first>> \o SortBySlideIndex(items \ {first})

\* Mutation of assemblePresentation: the slides are in descending order of
\* slideIndex.
assembleDescending(metadata, slideItems) ==
    LET sorted == SortBySlideIndex(slideItems)
    IN  [a \in DOMAIN metadata \cap {"id", "title", "description", "theme"} |-> metadata[a]]
        @@ [slides |-> [j \in 1..Len(sorted) |-> sorted[Len(sorted) + 1 - j].slide]]

\* The Presentation assembled from the metadata item and the slide items.
assemblePresentation(metadata, slideItems) ==
    LET sorted == SortBySlideIndex(slideItems)
    IN  [a \in DOMAIN metadata \cap {"id", "title", "description", "theme"} |-> metadata[a]]
        @@ [slides |-> [j \in 1..Len(sorted) |-> sorted[j].slide]]

\* getPresentation: null without a metadata item, else the metadata with
\* the slides of the partition ordered by slideIndex.
getPresentation(tbl, presentationId) ==
    LET metadata == GetItem(tbl, MetadataKey(presentationId))
    IN  IF metadata = Null THEN Null
        ELSE assemblePresentation(metadata,
                 {tbl[k] : k \in QuerySlides(tbl, createPK(presentationId))})

\* Mutation of createdAtOr: the creation time is always the time of the call.
createdAtNow(existing, now) == now

\* existing?.createdAt || now
createdAtOr(existing, now) ==
    IF "createdAt" \in DOMAIN existing /\ existing.createdAt # 0
    THEN existing.createdAt ELSE now

\* The item savePresentationMetadata puts, given the record it read.
metadataItem(metadata, existing, now) ==
    removeUndefinedValues(
        [pk |-> createPK(metadata.id),
         sk |-> createSK("METADATA", -1),
         gsi1pk |-> createGSI1PK(metadata.userId),
         gsi1sk |-> createGSI1SK(metadata.id),
         createdAt |-> createdAtOr(existing, now),
         updatedAt |-> now] @@ metadata)

savePresentationMetadata(tbl, metadata, now) ==
    PutItem(tbl, metadataItem(metadata, getPresentationMetadata(tbl, metadata.id), now))

saveSlide(tbl, presentationId, slideIndex, slide, now) ==
    PutItem(tbl, [pk |-> createPK(presentationId),
                  sk |-> createSK("SLIDE", slideIndex),
                  slideIndex |-> slideIndex,
                  slide |-> slide,
                  updatedAt |-> now])

\* slides.map((slide, index) => PutRequest ...)
writeRequests(presentationId, slides, now) ==
    [j \in 1..Len(slides) |->
        [pk |-> createPK(presentationId),
         sk |-> createSK("SLIDE", j - 1),
         slideIndex |-> j - 1,
         slide |-> slides[j],
         updatedAt |-> now]]

\* Mutation of batchAt: a batch runs one request into the next one.
batchAtOverlapping(requests, i) ==
    SubSeq(requests, i + 1, Min(i + BatchLimit + 1, Len(requests)))

\* writeRequests.slice(i, i + 25)
batchAt(requests, i) == SubSeq(requests, i + 1, Min(i + BatchLimit, Len(requests)))

RECURSIVE saveSlidesFrom(_, _, _, _)
\* The loop of saveSlides from offset i; lost holds the slide indices that
\* the attempt and its one retry both left unprocessed.
saveSlidesFrom(tbl, requests, i, lost) ==
    IF i >= Len(requests) THEN tbl
    ELSE saveSlidesFrom(BatchPut(tbl, batchAt(requests, i), lost),
                        requests, i + BatchLimit, lost)

\* Mutation of saveSlides: the stored slide records of the presentation are
\* deleted before the new ones are written.
saveSlidesReplacing(tbl, presentationId, slides, now, lost) ==
    saveSlidesFrom(BatchDelete(tbl, QuerySlides(tbl, createPK(presentationId))),
                   writeRequests(presentationId, slides, now), 0, lost)

saveSlides(tbl, presentationId, slides, now, lost) ==
    saveSlidesFrom(tbl, writeRequests(presentationId, slides, now), 0, lost)

\* Mutation of updatePresentationStatus: errorMessage is never set.
updatePresentationStatusNoMessage(tbl, presentationId, status, errorMessage, now) ==
    UpdateItem(tbl, MetadataKey(presentationId), [status |-> status, updatedAt |-> now])

\* Mutation of updatePresentationStatus: without an errorMessage the stored
\* one is reset.
updatePresentationStatusResets(tbl, presentationId, status, errorMessage, now) ==
    UpdateItem(tbl, MetadataKey(presentationId),
        [status |-> status, updatedAt |-> now,
         errorMessage |-> IF Truthy(errorMessage) THEN errorMessage ELSE ""])

\* if (errorMessage) is false for undefined and for the empty string.
updatePresentationStatus(tbl, presentationId, status, errorMessage, now) ==
    UpdateItem(tbl, MetadataKey(presentationId),
        IF Truthy(errorMessage)
        THEN [status |-> status, updatedAt |-> now, errorMessage |-> errorMessage]
        ELSE [status |-> status, updatedAt |-> now])

\* Mutation of updatePresentationMetadata: the update also sets status
\* completed.
updatePresentationMetadataCompletes(tbl, presentationId, updates, now) ==
    UpdateItem(tbl, MetadataKey(presentationId),
        [updatedAt |-> now, status |-> "completed"] @@ removeUndefinedValues(updates))

\* Mutation of updatePresentationMetadata: a field that is not provided is
\* cleared.
updatePresentationMetadataClears(tbl, presentationId, updates, now) ==
    UpdateItem(tbl, MetadataKey(presentationId),
        [updatedAt |-> now]
            @@ [a \in DOMAIN updates |-> IF updates[a] = Undefined THEN "" ELSE updates[a]])

\* updates carries title, description and theme, each possibly undefined.
updatePresentationMetadata(tbl, presentationId, updates, now) ==
    UpdateItem(tbl, MetadataKey(presentationId),
        [updatedAt |-> now] @@ removeUndefinedValues(updates))

\* QueryCommand on GSI1, gsi1pk = :gsi1pk: the items of the index partition
\* in the order of their sort key gsi1sk.
RECURSIVE OrderByGSI1SK(_)
OrderByGSI1SK(items) ==
    IF items = {} THEN <<>>
    ELSE LET first == CHOOSE x \in items : \A y \in items : x.gsi1sk[2] <= y.gsi1sk[2]
         IN  <<first>> \o OrderByGSI1SK(items \ {first})

QueryGSI1(tbl, gsi1pk) ==
    OrderByGSI1SK({tbl[k] : k \in {k \in DOMAIN tbl :
        "gsi1pk" \in DOMAIN tbl[k] /\ tbl[k].gsi1pk = gsi1pk}})

\* The place of x in a sequence already sorted by createdAt descending:
\* behind every element that is not older than x (the sort is stable).
RECURSIVE InsertByCreatedAt(_, _)
InsertByCreatedAt(sorted, x) ==
    IF sorted = <<>> THEN <<x>>
    ELSE IF Head(sorted).createdAt >= x.createdAt
         THEN <<Head(sorted)>> \o InsertByCreatedAt(Tail(sorted), x)
         ELSE <<x>> \o sorted

RECURSIVE SortByCreatedAtDescending(_)
\* presentations.sort((a, b) => b.createdAt - a.createdAt)
SortByCreatedAtDescending(presentations) ==
    IF presentations = <<>> THEN <<>>
    ELSE InsertByCreatedAt(
             SortByCreatedAtDescending(SubSeq(presentations, 1, Len(presentations) - 1)),
             presentations[Len(presentations)])

\* item => ({id: item.id, title: item.title, ...})
metadataOf(item) == [a \in DOMAIN item \cap MetadataFields |-> item[a]]

\* Mutation of getUserPresentations: the records are returned in the order
\* of the index.
getUserPresentationsUnsorted(tbl, userId) ==
    LET items == QueryGSI1(tbl, createGSI1PK(userId))
    IN  [j \in 1..Len(items) |-> metadataOf(items[j])]

getUserPresentations(tbl, userId) ==
    LET items == QueryGSI1(tbl, createGSI1PK(userId))
    IN  SortByCreatedAtDescending([j \in 1..Len(items) |-> metadataOf(items[j])])

\* deletePresentation: every key of the partition is sent for deletion in
\* batches; UnprocessedItems of a batch (unprocessed) are not looked at.
deletePresentation(tbl, presentationId, unprocessed) ==
    LET keys == QueryPartition(tbl, createPK(presentationId))
    IN  IF keys = {} THEN tbl ELSE BatchDelete(tbl, keys \ unprocessed)

(***************************************************************************)
(* The generation client and the errors the collaborators throw.           *)
(***************************************************************************)
NoError == Null
\* A thrown value: an Error instance with its message, and the call that
\* threw it.
Error(message, site) == [isError |-> TRUE, message |-> message, site |-> site]
GenerationErrors == {Error("No response from OpenAI", "generatePresentation")}
StoreErrors(site) == {Error("dynamodb", site)}
QueueErrors == {Error("sqs", "send")}

RECURSIVE SeqsUpTo(_, _)
\* The sequences over S of length at most n.
SeqsUpTo(S, n) ==
    IF n = 0 THEN {<<>>}
    ELSE LET shorter == SeqsUpTo(S, n - 1)
         IN  shorter \cup {Append(q, x) : q \in shorter, x \in S}

\* The slide lists generatePresentation can return (parsed.slides is an array).
GeneratedSlides == SeqsUpTo(SlideValues, MaxSlides)

\* Mutation of errorMessageOf: the message of the error is not used.
errorMessageUnknown(error) == "Unknown error"

\* error instanceof Error ? error.message : "Unknown error"
errorMessageOf(error) == IF error.isError THEN error.message ELSE "Unknown error"

(***************************************************************************)
(* State.                                                                  *)
(***************************************************************************)
VARIABLES
    table,          \* the DynamoDB table
    queue,          \* the SQS queue: presentation id -> its job message
    clock,          \* Date.now()
    queueUrl,       \* SQS_QUEUE_URL of the HTTP handlers
    wsEndpoint,     \* WEBSOCKET_API_ENDPOINT of the consumer
    authEnabled,    \* GOOGLE_CLIENT_ID is set in the secret
    userWhitelist,  \* USER_WHITELIST, as its comma-separated pieces
    nextId,         \* the next fresh presentation id
    creating,       \* the create request in flight, or null
    worker,         \* the consumer invocations
    sent,           \* the notifications posted to connections
    call,           \* the last call of the repository made on its own
    pending,        \* the repository calls in flight, per concurrent caller
    finalized,      \* history: ids whose status has been completed or failed
    statusWrites    \* history: terminal status writes of the worker, per id

vars == <<table, queue, clock, queueUrl, wsEndpoint, pending, authEnabled, userWhitelist, nextId,
          creating, worker, sent, call, finalized, statusWrites>>

EmptyTable == [k \in {} |-> Null]

\* The status attribute of the metadata item of id, undefined without one.
StatusOf(tbl, id) == Attr(GetItem(tbl, MetadataKey(id)), "status")

TerminalStatuses == {"completed", "failed"}

\* History: the ids whose stored status is terminal join finalized.
TrackFinalized ==
    finalized' = finalized \cup {id \in Ids : StatusOf(table', id) \in TerminalStatuses}

IdleWorker ==
    [pc |-> "idle", records |-> <<>>, idx |-> 0, slides |-> <<>>, ts |-> 0,
     i |-> 0, unprocessed |-> {}, caught |-> NoError, thrown |-> NoError,
     wrote |-> <<>>, notified |-> "none"]

\* The locals of processMessage at its entry for record idx.
StartRecord(w, records, idx) ==
    [IdleWorker EXCEPT !.pc = "processMessage", !.records = records, !.idx = idx]

\* Mutation of Catch: the catch block starts the try block again.
CatchStartsOver(wk, e) ==
    [wk EXCEPT !.pc = "processMessage", !.slides = <<>>, !.ts = 0,
               !.i = 0, !.unprocessed = {}]

\* catch (error): the locals of the try block are out of scope.
Catch(wk, e) ==
    [wk EXCEPT !.pc = "markFailed", !.caught = e, !.slides = <<>>, !.ts = 0,
               !.i = 0, !.unprocessed = {}]

\* Mutation of EndTry: the end of the try block falls into the catch block.
EndTryIntoCatch(wk, outcome) == Catch(wk, Error("fell through", "try"))

\* The try block is left at its end: processMessage returns.
EndTry(wk, outcome) == [wk EXCEPT !.pc = "done", !.notified = outcome]

\* JSON.parse(record.body) of the record in hand.
Message(w) == worker[w].records[worker[w].idx]

(***************************************************************************)
(* The SQS consumer (handlers/sqs/generatePresentation.ts).  One action    *)
(* per awaited call of processMessage; pc names the call about to be made. *)
(***************************************************************************)
RECURSIVE Perms(_)
Perms(S) ==
    IF S = {} THEN {<<>>}
    ELSE UNION {{<<x>> \o q : q \in Perms(S \ {x})} : x \in S}

\* The batches of job messages SQS can hand to one invocation.
Batches(S) == UNION {Perms(T) : T \in (SUBSET S) \ {{}}}

Visible == {id \in DOMAIN queue : queue[id].state = "visible"
                                  /\ queue[id].receives < MaxReceives}

\* The queue with the messages of ids in state st.
SetState(q, ids, st) ==
    [id \in DOMAIN q |-> IF id \in ids THEN [q[id] EXCEPT !.state = st] ELSE q[id]]

RecordIds(w) == {worker[w].records[j].presentationId : j \in 1..Len(worker[w].records)}

\* SQS hands a batch of visible messages to an idle invocation.
Receive(w) ==
    /\ worker[w].pc = "idle"
    /\ \E batch \in Batches(Visible) :
          /\ worker' = [worker EXCEPT ![w] =
                 StartRecord(w, [j \in 1..Len(batch) |-> queue[batch[j]].body], 1)]
          /\ queue' = [id \in DOMAIN queue |->
                 IF \E j \in 1..Len(batch) : batch[j] = id
                 THEN [queue[id] EXCEPT !.state = "inflight", !.receives = @ + 1]
                 ELSE queue[id]]
    /\ UNCHANGED <<call, table, clock, queueUrl, wsEndpoint, pending, authEnabled, userWhitelist, nextId,
                   creating, sent, finalized, statusWrites>>

\* At-least-once delivery: a message in flight or already deleted becomes
\* visible again.
SqsRedeliver(id) ==
    /\ id \in DOMAIN queue
    /\ queue[id].state \in {"inflight", "deleted"}
    /\ queue[id].receives < MaxReceives
    /\ queue' = SetState(queue, {id}, "visible")
    /\ UNCHANGED <<call, table, clock, queueUrl, wsEndpoint, pending, authEnabled, userWhitelist, nextId,
                   creating, worker, sent, finalized, statusWrites>>

\* Where processMessage goes when generatePresentation has returned: into
\* the loop of saveSlides, which makes no call for an empty list.
afterGenerate(slides) == IF Len(slides) = 0 THEN "markCompleted" ELSE "saveSlides"

\* The loop of saveSlides after the batch at offset i of n requests.
afterBatch(i, n) == IF i + BatchLimit < n THEN "saveSlides" ELSE "markCompleted"

\* saveSlides goes to the batch at i + 25, or returns: its locals are out of
\* scope.
nextBatch(wk, n) ==
    IF afterBatch(wk.i, n) = "saveSlides"
    THEN [wk EXCEPT !.pc = "saveSlides", !.i = @ + BatchLimit, !.unprocessed = {}]
    ELSE [wk EXCEPT !.pc = "markCompleted", !.ts = 0, !.i = 0, !.unprocessed = {}]

\* if (connectionId) after the completed status write.
afterCompleted(message) ==
    IF Truthy(Attr(message, "connectionId")) THEN "notifyCompleted" ELSE "done"

\* if (connectionId) after the failed status write; then throw error.
afterFailed(message) ==
    IF Truthy(Attr(message, "connectionId")) THEN "notifyFailed" ELSE "throwing"

\* Mutation of notifyWebSocket: an error of the send is thrown to the caller.
notifyWebSocketThrows(endpoint, sendError) ==
    IF endpoint = "" THEN [posted |-> FALSE, outcome |-> "skipped", thrown |-> NoError]
    ELSE IF sendError = NoError
         THEN [posted |-> TRUE, outcome |-> "sent", thrown |-> NoError]
         ELSE [posted |-> FALSE, outcome |-> "failed", thrown |-> sendError]

\* notifyWebSocket: nothing is sent without an endpoint; an error of the
\* send is caught and logged, never thrown.
notifyWebSocket(endpoint, sendError) ==
    IF endpoint = "" THEN [posted |-> FALSE, outcome |-> "skipped", thrown |-> NoError]
    ELSE IF sendError = NoError
         THEN [posted |-> TRUE, outcome |-> "sent", thrown |-> NoError]
         ELSE [posted |-> FALSE, outcome |-> "failed", thrown |-> NoError]

\* await generatePresentation(title, description)
W_Generate(w) ==
    /\ worker[w].pc = "processMessage"
    /\ \/ \E e \in GenerationErrors :
             worker' = [worker EXCEPT ![w] = Catch(@, e)]
       \/ \E slides \in GeneratedSlides :
             worker' = [worker EXCEPT ![w].pc = afterGenerate(slides),
                                      ![w].slides = slides,
                                      ![w].ts = IF afterGenerate(slides) = "saveSlides"
                                                THEN clock ELSE 0]
    /\ UNCHANGED <<call, table, queue, clock, queueUrl, wsEndpoint, pending, authEnabled, userWhitelist, nextId,
                   creating, sent, finalized, statusWrites>>

WorkerRequests(w) ==
    writeRequests(Message(w).presentationId, worker[w].slides, worker[w].ts)

BatchIndices(batch) == {batch[j].slideIndex : j \in 1..Len(batch)}

\* saveSlides: the BatchWriteCommand of the batch at offset i.
W_SaveBatch(w) ==
    /\ worker[w].pc = "saveSlides"
    /\ LET requests == WorkerRequests(w)
           batch == batchAt(requests, worker[w].i)
       IN  \/ \E e \in StoreErrors("saveSlides") :
                 /\ worker' = [worker EXCEPT ![w] = Catch(@, e)]
                 /\ table' = table
           \/ \E unprocessed \in SUBSET BatchIndices(batch) :
                 /\ table' = BatchPut(table, batch, unprocessed)
                 /\ worker' = [worker EXCEPT ![w] =
                        IF unprocessed # {}
                        THEN [@ EXCEPT !.pc = "retry", !.unprocessed = unprocessed]
                        ELSE nextBatch(@, Len(requests))]
    /\ TrackFinalized
    /\ UNCHANGED <<call, queue, clock, queueUrl, wsEndpoint, pending, authEnabled, userWhitelist, nextId,
                   creating, sent, statusWrites>>

\* saveSlides: the one retry of result.UnprocessedItems; what the retry
\* leaves unprocessed is not looked at.
W_Retry(w) ==
    /\ worker[w].pc = "retry"
    /\ LET requests == WorkerRequests(w)
           batch == batchAt(requests, worker[w].i)
           again == SelectSeq(batch, LAMBDA r : r.slideIndex \in worker[w].unprocessed)
       IN  \/ \E e \in StoreErrors("saveSlides") :
                 /\ worker' = [worker EXCEPT ![w] = Catch(@, e)]
                 /\ table' = table
           \/ \E unprocessed \in SUBSET worker[w].unprocessed :
                 /\ table' = BatchPut(table, again, unprocessed)
                 /\ worker' = [worker EXCEPT ![w] =
                        nextBatch(@, Len(requests))]
    /\ TrackFinalized
    /\ UNCHANGED <<call, queue, clock, queueUrl, wsEndpoint, pending, authEnabled, userWhitelist, nextId,
                   creating, sent, statusWrites>>

\* The status write of the try block.
markCompleted(tbl, presentationId, now) ==
    updatePresentationStatus(tbl, presentationId, "completed", Undefined, now)

\* Mutation of markFailed: the catch block writes status processing.
markFailedProcessing(tbl, presentationId, error, now) ==
    updatePresentationStatus(tbl, presentationId, "processing", errorMessageOf(error), now)

\* The status write of the catch block.
markFailed(tbl, presentationId, error, now) ==
    updatePresentationStatus(tbl, presentationId, "failed", errorMessageOf(error), now)

\* await updatePresentationStatus(presentationId, "completed")
W_MarkCompleted(w) ==
    /\ worker[w].pc = "markCompleted"
    /\ LET id == Message(w).presentationId
       IN  \E e \in StoreErrors("completed") \cup {NoError} :
              IF e # NoError
              THEN /\ worker' = [worker EXCEPT ![w] = Catch(@, e)]
                   /\ table' = table
                   /\ statusWrites' = statusWrites
              ELSE /\ table' = markCompleted(table, id, clock)
                   /\ worker' = [worker EXCEPT ![w] =
                          IF afterCompleted(Message(w)) = "done"
                          THEN [EndTry(@, "none") EXCEPT
                                   !.wrote = Append(@, StatusOf(table', id))]
                          ELSE [@ EXCEPT !.pc = afterCompleted(Message(w)),
                                         !.wrote = Append(@, StatusOf(table', id))]]
                   /\ statusWrites' = [statusWrites EXCEPT ![id] = @ + 1]
    /\ TrackFinalized
    /\ UNCHANGED <<call, queue, clock, queueUrl, wsEndpoint, pending, authEnabled, userWhitelist, nextId,
                   creating, sent>>

\* await notifyWebSocket(connectionId, {type: "presentation-completed", ...})
\* inside the try block.
W_NotifyCompleted(w) ==
    /\ worker[w].pc = "notifyCompleted"
    /\ \E e \in QueueErrors \cup {NoError} :
          LET r == notifyWebSocket(wsEndpoint, e)
              m == [connectionId |-> Message(w).connectionId,
                    type |-> "presentation-completed",
                    presentationId |-> Message(w).presentationId,
                    error |-> Undefined]
          IN  /\ sent' = IF r.posted THEN sent \cup {m} ELSE sent
              /\ worker' = [worker EXCEPT ![w] =
                     IF r.thrown # NoError
                     THEN [Catch(@, r.thrown) EXCEPT !.notified = r.outcome]
                     ELSE EndTry(@, r.outcome)]
    /\ UNCHANGED <<call, table, queue, clock, queueUrl, wsEndpoint, pending, authEnabled, userWhitelist, nextId,
                   creating, finalized, statusWrites>>

\* catch (error): await updatePresentationStatus(presentationId, "failed",
\* errorMessage); an error of this write leaves processMessage in place of
\* the one caught.
W_MarkFailed(w) ==
    /\ worker[w].pc = "markFailed"
    /\ LET id == Message(w).presentationId
       IN  \E e \in StoreErrors("failed") \cup {NoError} :
              IF e # NoError
              THEN /\ worker' = [worker EXCEPT ![w].pc = "throwing", ![w].thrown = e]
                   /\ table' = table
                   /\ statusWrites' = statusWrites
              ELSE /\ table' = markFailed(table, id, worker[w].caught, clock)
                   /\ worker' = [worker EXCEPT ![w] =
                          [@ EXCEPT !.pc = afterFailed(Message(w)),
                                    !.thrown = IF afterFailed(Message(w)) = "throwing"
                                               THEN worker[w].caught ELSE NoError,
                                    !.wrote = Append(@, StatusOf(table', id))]]
                   /\ statusWrites' = [statusWrites EXCEPT ![id] = @ + 1]
    /\ TrackFinalized
    /\ UNCHANGED <<call, queue, clock, queueUrl, wsEndpoint, pending, authEnabled, userWhitelist, nextId,
                   creating, sent>>

\* await notifyWebSocket(connectionId, {type: "presentation-failed", ...})
\* inside the catch block, then throw error.
W_NotifyFailed(w) ==
    /\ worker[w].pc = "notifyFailed"
    /\ \E e \in QueueErrors \cup {NoError} :
          LET r == notifyWebSocket(wsEndpoint, e)
              m == [connectionId |-> Message(w).connectionId,
                    type |-> "presentation-failed",
                    presentationId |-> Message(w).presentationId,
                    error |-> errorMessageOf(worker[w].caught)]
          IN  /\ sent' = IF r.posted THEN sent \cup {m} ELSE sent
              /\ worker' = [worker EXCEPT ![w] =
                     [@ EXCEPT !.pc = "throwing", !.notified = r.outcome,
                               !.thrown = IF r.thrown # NoError THEN r.thrown
                                          ELSE worker[w].caught]]
    /\ UNCHANGED <<call, table, queue, clock, queueUrl, wsEndpoint, pending, authEnabled, userWhitelist, nextId,
                   creating, finalized, statusWrites>>

\* processMessage has returned: the loop of handler takes the next record,
\* or handler returns and the messages of the batch are deleted.
W_Next(w) ==
    /\ worker[w].pc = "done"
    /\ IF worker[w].idx < Len(worker[w].records)
       THEN /\ worker' = [worker EXCEPT ![w] =
                   StartRecord(w, worker[w].records, worker[w].idx + 1)]
            /\ queue' = queue
       ELSE /\ worker' = [worker EXCEPT ![w] = IdleWorker]
            /\ queue' = SetState(queue, RecordIds(w), "deleted")
    /\ UNCHANGED <<call, table, clock, queueUrl, wsEndpoint, pending, authEnabled, userWhitelist, nextId,
                   creating, sent, finalized, statusWrites>>

\* Mutation of W_Throw: the handler logs the error of a record and goes on
\* with the next one.
W_ThrowSwallowed(w) ==
    /\ worker[w].pc = "throwing"
    /\ IF worker[w].idx < Len(worker[w].records)
       THEN /\ worker' = [worker EXCEPT ![w] =
                   StartRecord(w, worker[w].records, worker[w].idx + 1)]
            /\ queue' = queue
       ELSE /\ worker' = [worker EXCEPT ![w] = IdleWorker]
            /\ queue' = SetState(queue, RecordIds(w), "deleted")
    /\ UNCHANGED <<call, table, clock, queueUrl, wsEndpoint, pending, authEnabled, userWhitelist, nextId,
                   creating, sent, finalized, statusWrites>>

\* processMessage has thrown: handler rethrows, the invocation fails and
\* every message of the batch returns to the queue.
W_Throw(w) ==
    /\ worker[w].pc = "throwing"
    /\ worker' = [worker EXCEPT ![w] = IdleWorker]
    /\ queue' = SetState(queue, RecordIds(w), "visible")
    /\ UNCHANGED <<call, table, clock, queueUrl, wsEndpoint, pending, authEnabled, userWhitelist, nextId,
                   creating, sent, finalized, statusWrites>>

\* The invocation is cut off by the function timeout: its messages return
\* to the queue.
W_Timeout(w) ==
    /\ worker[w].pc \notin {"idle", "done", "throwing"}
    /\ worker' = [worker EXCEPT ![w] = IdleWorker]
    /\ queue' = SetState(queue, RecordIds(w), "visible")
    /\ UNCHANGED <<call, table, clock, queueUrl, wsEndpoint, pending, authEnabled, userWhitelist, nextId,
                   creating, sent, finalized, statusWrites>>

\* Time passes.
Tick ==
    /\ clock < MaxClock
    /\ clock' = clock + 1
    /\ UNCHANGED <<call, table, queue, queueUrl, wsEndpoint, pending, authEnabled, userWhitelist, nextId,
                   creating, worker, sent, finalized, statusWrites>>

(***************************************************************************)
(* The HTTP handlers.  A handler is an operator from the table, the        *)
(* request and the outcome of its collaborators to the table it leaves and *)
(* the response it returns.  auth is what requireAuth yields: an email, or *)
(* undefined when it throws.  fail numbers the store call that throws      *)
(* (0: none does).                                                         *)
(***************************************************************************)
MaxCreates == 1         \* presentations the create handler makes in a run

Response(statusCode, body) == [statusCode |-> statusCode, body |-> body]
Result(tbl, statusCode, body) == [table |-> tbl, response |-> Response(statusCode, body)]

\* loadSecrets: the secret's GOOGLE_CLIENT_ID when the secret is read (or
\* cached), undefined when reading it fails (the catch returns {}).
loadSecrets(clientId, loaded) == IF loaded THEN clientId ELSE Undefined

\* process.env.GOOGLE_CLIENT_ID: handlerEnv does not set it.
EnvClientId == Undefined

\* getSecret("GOOGLE_CLIENT_ID"): secrets[key] || process.env[key]
getSecret(clientId, loaded) ==
    IF Truthy(loadSecrets(clientId, loaded)) THEN loadSecrets(clientId, loaded)
    ELSE EnvClientId

\* isGoogleAuthConfigured(): !!clientId
isGoogleAuthConfigured(clientId, loaded) == Truthy(getSecret(clientId, loaded))

\* The client id the secret holds when authEnabled, none otherwise.
ClientId == IF authEnabled THEN "client-id" ELSE Undefined

\* What isGoogleAuthConfigured() can return to a handler invocation: the
\* secret is read, or reading it fails.
AuthModes == {isGoogleAuthConfigured(ClientId, loaded) : loaded \in BOOLEAN}

\* What requireAuth can yield; it is not called when auth is found disabled.
AuthsOf(enabled) == IF enabled THEN Users \cup {Undefined} ELSE {Undefined}

\* let userEmail = "anonymous@dev.local"; if (authEnabled) userEmail = user.email
userEmailOf(enabled, auth) == IF enabled THEN auth ELSE AnonymousUser

\* requireAuth threw: the handler answers 401.
Unauthorized(enabled, auth) == enabled /\ auth = Undefined

\* Mutation of NotOwner: only the anonymous identity is turned away.
NotOwnerAnonymous(enabled, metadata, userEmail) ==
    enabled /\ userEmail = AnonymousUser

\* authEnabled && metadata.userId !== userEmail
NotOwner(enabled, metadata, userEmail) ==
    enabled /\ Attr(metadata, "userId") # userEmail

DefaultTheme == "qodea-image"

\* GET /presentations/{id}
getPresentationHandler(tbl, id, fail) ==
    IF id = 0 THEN Result(tbl, 400, "Presentation ID is required")
    ELSE IF fail = 1 THEN Result(tbl, 500, "dynamodb")
    ELSE LET presentation == getPresentation(tbl, id)
         IN  IF presentation = Null
             THEN Result(tbl, 404, "Presentation not found")
             ELSE Result(tbl, 200, presentation)

\* Mutation of getPresentationRequest: the handler authenticates like the
\* others.
getPresentationRequestGuarded(tbl, enabled, caller, id, fail) ==
    IF enabled /\ caller = Undefined THEN Result(tbl, 401, "Unauthorized")
    ELSE getPresentationHandler(tbl, id, fail)

\* GET /presentations/{id} on an event: of the event, whatever credential
\* it carries and whatever the authentication mode, the handler reads the
\* path parameter only.
getPresentationRequest(tbl, enabled, caller, id, fail) ==
    getPresentationHandler(tbl, id, fail)

\* Mutation of updatePresentationHandler: ownership is checked after the
\* update has been written.
updatePresentationHandlerChecksLate(tbl, enabled, auth, id, body, now, fail) ==
    IF Unauthorized(enabled, auth) THEN Result(tbl, 401, "Unauthorized")
    ELSE IF id = 0 THEN Result(tbl, 400, "Presentation ID is required")
    ELSE IF body = Null THEN Result(tbl, 400, "Request body is required")
    ELSE LET existing == getPresentationMetadata(tbl, id)
             updated == updatePresentationMetadata(tbl, id,
                            [title |-> Attr(body, "title"),
                             description |-> Attr(body, "description"),
                             theme |-> Attr(body, "theme")], now)
         IN  IF existing = Null THEN Result(tbl, 404, "Presentation not found")
             ELSE IF NotOwner(enabled, existing, userEmailOf(enabled, auth))
             THEN Result(updated, 403, "Forbidden - you do not own this presentation")
             ELSE Result(updated, 200, "success")

\* PUT /presentations/{id}
updatePresentationHandler(tbl, enabled, auth, id, body, now, fail) ==
    IF Unauthorized(enabled, auth) THEN Result(tbl, 401, "Unauthorized")
    ELSE IF id = 0 THEN Result(tbl, 400, "Presentation ID is required")
    ELSE IF body = Null THEN Result(tbl, 400, "Request body is required")
    ELSE IF fail = 1 THEN Result(tbl, 500, "dynamodb")
    ELSE LET existing == getPresentationMetadata(tbl, id)
         IN  IF existing = Null THEN Result(tbl, 404, "Presentation not found")
             ELSE IF NotOwner(enabled, existing, userEmailOf(enabled, auth))
             THEN Result(tbl, 403, "Forbidden - you do not own this presentation")
             ELSE IF fail = 2 THEN Result(tbl, 500, "dynamodb")
             ELSE Result(updatePresentationMetadata(tbl, id,
                             [title |-> Attr(body, "title"),
                              description |-> Attr(body, "description"),
                              theme |-> Attr(body, "theme")], now),
                         200, "success")

\* DELETE /presentations/{id}
deletePresentationHandler(tbl, enabled, auth, id, fail, unprocessed) ==
    IF Unauthorized(enabled, auth) THEN Result(tbl, 401, "Unauthorized")
    ELSE IF id = 0 THEN Result(tbl, 400, "Presentation ID is required")
    ELSE IF fail = 1 THEN Result(tbl, 500, "dynamodb")
    ELSE LET existing == getPresentationMetadata(tbl, id)
         IN  IF existing = Null THEN Result(tbl, 404, "Presentation not found")
             ELSE IF NotOwner(enabled, existing, userEmailOf(enabled, auth))
             THEN Result(tbl, 403, "Forbidden - you do not own this presentation")
             ELSE IF fail = 2 THEN Result(tbl, 500, "dynamodb")
             ELSE Result(deletePresentation(tbl, id, unprocessed),
                         200, "Presentation deleted")

\* presentation.slides.splice(slideIndex, 1)
spliceOut(slides, slideIndex) ==
    [j \in 1..(Len(slides) - 1) |-> IF j <= slideIndex THEN slides[j] ELSE slides[j + 1]]

\* DELETE /presentations/{id}/slides/{index}; slideIndex = -1 stands for a
\* path parameter that is missing, not a number or negative.
deleteSlideHandler(tbl, enabled, auth, id, slideIndex, now, fail, lost) ==
    IF Unauthorized(enabled, auth) THEN Result(tbl, 401, "Unauthorized")
    ELSE IF id = 0 THEN Result(tbl, 400, "Presentation ID is required")
    ELSE IF slideIndex < 0 THEN Result(tbl, 400, "Invalid slide index")
    ELSE IF fail = 1 THEN Result(tbl, 500, "dynamodb")
    ELSE LET metadata == getPresentationMetadata(tbl, id)
             presentation == getPresentation(tbl, id)
         IN  IF metadata = Null THEN Result(tbl, 404, "Presentation not found")
             ELSE IF NotOwner(enabled, metadata, userEmailOf(enabled, auth))
             THEN Result(tbl, 403, "Forbidden - you do not own this presentation")
             ELSE IF fail = 2 THEN Result(tbl, 500, "dynamodb")
             ELSE IF presentation = Null THEN Result(tbl, 404, "Presentation not found")
             ELSE IF slideIndex >= Len(presentation.slides)
             THEN Result(tbl, 400, "Slide index out of range")
             ELSE IF Len(presentation.slides) <= 1
             THEN Result(tbl, 400, "Cannot delete the last slide in a presentation")
             ELSE IF fail = 3 THEN Result(tbl, 500, "dynamodb")
             ELSE Result(saveSlides(tbl, id, spliceOut(presentation.slides, slideIndex),
                                    now, lost),
                         200, "Slide deleted successfully")

\* The result of a handler that may call the generation client: generated
\* tells whether it did.
Outcome(tbl, statusCode, body, generated) ==
    [table |-> tbl, response |-> Response(statusCode, body), generated |-> generated]

RECURSIVE applyAffected(_, _)
\* for (const {slideIndex, slide} of affectedSlides)
\*   if (slideIndex >= 0 && slideIndex < slides.length) slides[slideIndex] = slide
applyAffected(slides, affectedSlides) ==
    IF affectedSlides = <<>> THEN slides
    ELSE LET a == Head(affectedSlides)
         IN  applyAffected(
                 IF a.slideIndex >= 0 /\ a.slideIndex < Len(slides)
                 THEN [slides EXCEPT ![a.slideIndex + 1] = a.slide]
                 ELSE slides,
                 Tail(affectedSlides))

\* presentation.slides.splice(position, 0, newSlide)
spliceIn(slides, position, newSlide) ==
    SubSeq(slides, 1, position) \o <<newSlide>> \o SubSeq(slides, position + 1, Len(slides))

\* Mutation of indexOutOfRange: the index one past the last slide is let
\* through.
indexPastRange(slideIndex, slides) == slideIndex > Len(slides)

\* slideIndex >= presentation.slides.length
indexOutOfRange(slideIndex, slides) == slideIndex >= Len(slides)

\* PUT /presentations/{id}/slides/{index}.  generationError is what
\* updateSlides throws (NoError when it returns affectedSlides).
updateSlideHandler(tbl, enabled, auth, id, slideIndex, body, now, fail, generationError, affectedSlides, lost) ==
    IF Unauthorized(enabled, auth) THEN Outcome(tbl, 401, "Unauthorized", FALSE)
    ELSE IF id = 0 THEN Outcome(tbl, 400, "Presentation ID is required", FALSE)
    ELSE IF slideIndex < 0 THEN Outcome(tbl, 400, "Invalid slide index", FALSE)
    ELSE IF body = Null THEN Outcome(tbl, 400, "Request body is required", FALSE)
    ELSE IF ~Truthy(Attr(body, "instruction"))
    THEN Outcome(tbl, 400, "Instruction is required", FALSE)
    ELSE IF fail = 1 THEN Outcome(tbl, 500, "dynamodb", FALSE)
    ELSE LET metadata == getPresentationMetadata(tbl, id)
             presentation == getPresentation(tbl, id)
         IN  IF metadata = Null THEN Outcome(tbl, 404, "Presentation not found", FALSE)
             ELSE IF NotOwner(enabled, metadata, userEmailOf(enabled, auth))
             THEN Outcome(tbl, 403, "Forbidden - you do not own this presentation", FALSE)
             ELSE IF fail = 2 THEN Outcome(tbl, 500, "dynamodb", FALSE)
             ELSE IF presentation = Null
             THEN Outcome(tbl, 404, "Presentation not found", FALSE)
             ELSE IF indexOutOfRange(slideIndex, presentation.slides)
             THEN Outcome(tbl, 400,
                     <<"Slide index out of range (max: ", Len(presentation.slides) - 1, ")">>,
                     FALSE)
             ELSE IF generationError # NoError
             THEN Outcome(tbl, 500, generationError.message, TRUE)
             ELSE IF fail = 3 THEN Outcome(tbl, 500, "dynamodb", TRUE)
             ELSE Outcome(saveSlides(tbl, id,
                              applyAffected(presentation.slides, affectedSlides), now, lost),
                          200, affectedSlides, TRUE)

\* POST /presentations/{id}/slides.  The body's position is -1 when it is
\* missing or negative; generationError is what generateSlide throws.
addSlideHandler(tbl, enabled, auth, id, body, now, fail, generationError, newSlide, lost) ==
    IF Unauthorized(enabled, auth) THEN Outcome(tbl, 401, "Unauthorized", FALSE)
    ELSE IF id = 0 THEN Outcome(tbl, 400, "Presentation ID is required", FALSE)
    ELSE IF body = Null THEN Outcome(tbl, 400, "Request body is required", FALSE)
    ELSE IF ~Truthy(Attr(body, "instruction"))
    THEN Outcome(tbl, 400, "Instruction is required", FALSE)
    ELSE IF body.position < 0
    THEN Outcome(tbl, 400, "Position must be a non-negative integer", FALSE)
    ELSE IF fail = 1 THEN Outcome(tbl, 500, "dynamodb", FALSE)
    ELSE LET metadata == getPresentationMetadata(tbl, id)
             presentation == getPresentation(tbl, id)
         IN  IF metadata = Null THEN Outcome(tbl, 404, "Presentation not found", FALSE)
             ELSE IF NotOwner(enabled, metadata, userEmailOf(enabled, auth))
             THEN Outcome(tbl, 403, "Forbidden - you do not own this presentation", FALSE)
             ELSE IF fail = 2 THEN Outcome(tbl, 500, "dynamodb", FALSE)
             ELSE IF presentation = Null
             THEN Outcome(tbl, 404, "Presentation not found", FALSE)
             ELSE IF body.position > Len(presentation.slides)
             THEN Outcome(tbl, 400,
                     <<"Position out of range (max: ", Len(presentation.slides), ")">>,
                     FALSE)
             ELSE IF generationError # NoError
             THEN Outcome(tbl, 500, generationError.message, TRUE)
             ELSE IF fail = 3 THEN Outcome(tbl, 500, "dynamodb", TRUE)
             ELSE Outcome(saveSlides(tbl, id,
                              spliceIn(presentation.slides, body.position, newSlide),
                              now, lost),
                          200, [slide |-> newSlide, slideIndex |-> body.position], TRUE)

\* The refine handler of a presentation.  generationError is what
\* refinePresentation throws.
refineHandler(tbl, enabled, auth, id, body, now, fail, generationError, affectedSlides, lost) ==
    IF Unauthorized(enabled, auth) THEN Outcome(tbl, 401, "Unauthorized", FALSE)
    ELSE IF id = 0 THEN Outcome(tbl, 400, "Presentation ID is required", FALSE)
    ELSE IF body = Null THEN Outcome(tbl, 400, "Request body is required", FALSE)
    ELSE IF ~Truthy(Attr(body, "instruction"))
    THEN Outcome(tbl, 400, "Instruction is required", FALSE)
    ELSE IF fail = 1 THEN Outcome(tbl, 500, "dynamodb", FALSE)
    ELSE LET metadata == getPresentationMetadata(tbl, id)
             presentation == getPresentation(tbl, id)
         IN  IF metadata = Null THEN Outcome(tbl, 404, "Presentation not found", FALSE)
             ELSE IF NotOwner(enabled, metadata, userEmailOf(enabled, auth))
             THEN Outcome(tbl, 403, "Forbidden - you do not own this presentation", FALSE)
             ELSE IF fail = 2 THEN Outcome(tbl, 500, "dynamodb", FALSE)
             ELSE IF presentation = Null
             THEN Outcome(tbl, 404, "Presentation not found", FALSE)
             ELSE IF generationError # NoError
             THEN Outcome(tbl, 500, generationError.message, TRUE)
             ELSE IF fail = 3 THEN Outcome(tbl, 500, "dynamodb", TRUE)
             ELSE Outcome(saveSlides(tbl, id,
                              applyAffected(presentation.slides, affectedSlides), now, lost),
                          200, affectedSlides, TRUE)

\* GET /presentations: the listing of the caller.
listPresentationsHandler(tbl, enabled, auth, fail) ==
    IF Unauthorized(enabled, auth) THEN Result(tbl, 401, "Unauthorized")
    ELSE IF fail = 1 THEN Result(tbl, 500, "dynamodb")
    ELSE LET presentations == getUserPresentations(tbl, userEmailOf(enabled, auth))
         IN  Result(tbl, 200, [presentations |-> presentations,
                               count |-> Len(presentations)])

\* The bodies of the requests that carry an instruction: none, one without
\* an instruction and a complete one.
InstructionBodies == {Null, [a \in {"none"} |-> "x"], [instruction |-> "i1"]}

\* The bodies of POST /presentations/{id}/slides.
AddSlideBodies ==
    {Null, [position |-> 0]}
        \cup {[instruction |-> "i1", position |-> p] : p \in -1..(MaxSlides + 1)}

\* What updateSlides and refinePresentation return.
AffectedSlides ==
    {<<>>, <<[slideIndex |-> 0, slide |-> "s3"]>>,
     <<[slideIndex |-> 1, slide |-> "s3"], [slideIndex |-> MaxSlides, slide |-> "s3"]>>}

\* The request bodies of POST /presentations: none, a complete one and one
\* without a description.
CreateBodies ==
    {Null, [title |-> "t1", description |-> "d1"], [title |-> "t1"]}

\* The request bodies of PUT /presentations/{id}.
UpdateBodies == {Null, [title |-> "t2"], [a \in {"none"} |-> "x"]}

PathIds == Ids
Callers == Users \cup {Undefined}
\* What requireAuth can yield; it is not called when auth is disabled.
Auths == IF authEnabled THEN Callers ELSE {Undefined}
\* The callers whose request passes requireAuth; the others are answered 401
\* with nothing written.
Authorized == IF authEnabled THEN Users ELSE {Undefined}

\* Mutation of createPresentationSave: the job is handed on although
\* savePresentationMetadata threw.
createPresentationSaveThenJob(tbl, enabled, auth, body, presentationId, now, fail) ==
    [table |-> tbl,
     job |-> [presentationId |-> presentationId, userId |-> userEmailOf(enabled, auth),
              title |-> "t1", description |-> "d1"],
     response |-> Null]

\* POST /presentations up to the metadata write: the checks, the fresh id
\* and savePresentationMetadata with status processing.  The result holds
\* the table, the job to enqueue (null when the handler has answered) and
\* the response of a handler that has answered.
createPresentationSave(tbl, enabled, auth, body, presentationId, now, fail) ==
    IF Unauthorized(enabled, auth)
    THEN [table |-> tbl, job |-> Null, response |-> Response(401, "Unauthorized")]
    ELSE IF body = Null
    THEN [table |-> tbl, job |-> Null,
          response |-> Response(400, "Request body is required")]
    ELSE IF ~Truthy(Attr(body, "title")) \/ ~Truthy(Attr(body, "description"))
    THEN [table |-> tbl, job |-> Null,
          response |-> Response(400, "Title and description are required")]
    ELSE IF fail = 1
    THEN [table |-> tbl, job |-> Null, response |-> Response(500, "dynamodb")]
    ELSE [table |-> savePresentationMetadata(tbl,
                        [id |-> presentationId, title |-> body.title,
                         description |-> body.description,
                         userId |-> userEmailOf(enabled, auth),
                         status |-> "processing", theme |-> DefaultTheme], now),
          job |-> [presentationId |-> presentationId,
                   userId |-> userEmailOf(enabled, auth),
                   title |-> body.title,
                   description |-> body.description],
          response |-> Null]

\* The queue after SendMessageCommand of the job message.
sendMessage(q, message) ==
    (message.presentationId :>
        [body |-> message, state |-> "visible", receives |-> 0]) @@ q

\* POST /presentations from the metadata write on: the job is sent when a
\* queue URL is configured (sendError: what the send throws), and the
\* handler answers.
createPresentationEnqueue(q, url, job, sendError) ==
    IF url # "" /\ sendError # NoError
    THEN [queue |-> q, response |-> Response(500, "sqs")]
    ELSE [queue |-> IF url # "" THEN sendMessage(q, job) ELSE q,
          response |-> Response(200, [presentationId |-> job.presentationId,
                                      status |-> "processing"])]

\* The handlers below run for a caller that passes requireAuth and with
\* their store calls returning (fail = 0): otherwise the handler answers 401
\* or 500 with the table as it was.  The create handler also runs with its
\* metadata write throwing (fail = 1).
CreateSave ==
    /\ creating = Null
    /\ nextId <= MaxCreates
    /\ \E auth \in Authorized : \E body \in CreateBodies : \E fail \in {0, 1} :
          LET r == createPresentationSave(table, authEnabled, auth, body, nextId,
                                          clock, fail)
          IN  /\ table' = r.table
              /\ creating' = r.job
              /\ nextId' = IF r.job # Null THEN nextId + 1 ELSE nextId
    /\ TrackFinalized
    /\ UNCHANGED <<call, queue, clock, queueUrl, wsEndpoint, pending, authEnabled,
                   userWhitelist, worker, sent,
                   statusWrites>>

CreateEnqueue ==
    /\ creating # Null
    /\ \E e \in QueueErrors \cup {NoError} :
          queue' = createPresentationEnqueue(queue, queueUrl, creating, e).queue
    /\ creating' = Null
    /\ UNCHANGED <<call, table, clock, queueUrl, wsEndpoint, pending, authEnabled, userWhitelist, nextId, worker,
                   sent, finalized, statusWrites>>

UpdatePresentation ==
    /\ \E auth \in Authorized : \E id \in PathIds : \E body \in UpdateBodies :
          table' = updatePresentationHandler(table, authEnabled, auth, id, body,
                                             clock, 0).table
    /\ TrackFinalized
    /\ UNCHANGED <<call, queue, clock, queueUrl, wsEndpoint, pending, authEnabled, userWhitelist, nextId,
                   creating, worker, sent, statusWrites>>

DeletePresentation ==
    /\ \E auth \in Authorized : \E id \in PathIds :
       \E unprocessed \in UpTo(QueryPartition(table, createPK(id)), MaxUnprocessed) :
          table' = deletePresentationHandler(table, authEnabled, auth, id, 0,
                                             unprocessed).table
    /\ TrackFinalized
    /\ UNCHANGED <<call, queue, clock, queueUrl, wsEndpoint, pending, authEnabled, userWhitelist, nextId,
                   creating, worker, sent, statusWrites>>

DeleteSlide ==
    /\ \E auth \in Authorized : \E id \in PathIds : \E slideIndex \in 0..MaxSlides :
       \E lost \in SUBSET (0..(MaxSlides - 2)) :
          table' = deleteSlideHandler(table, authEnabled, auth, id, slideIndex, clock,
                                      0, lost).table
    /\ TrackFinalized
    /\ UNCHANGED <<call, queue, clock, queueUrl, wsEndpoint, pending, authEnabled, userWhitelist, nextId,
                   creating, worker, sent, statusWrites>>

(***************************************************************************)
(* The system: the HTTP API and the consumer on one table and one queue.   *)
(***************************************************************************)
\* No call of the repository has been made on its own.
NoCall == [op |-> "none", id |-> 0, arg |-> Null, prev |-> Null, n |-> 0]

Init ==
    /\ table = EmptyTable
    /\ queue = [id \in {} |-> Null]
    /\ clock = 1
    /\ queueUrl \in {"", "https://sqs/queue"}
    /\ wsEndpoint = ""
    /\ authEnabled \in BOOLEAN
    /\ userWhitelist = <<>>
    /\ nextId = 1
    /\ creating = Null
    /\ worker = [w \in Workers |-> IdleWorker]
    /\ sent = {}
    /\ call = NoCall
    /\ finalized = {}
    /\ statusWrites = [id \in Ids |-> 0]
    /\ pending = [c \in Clients |-> Null]

Next ==
    \/ CreateSave
    \/ CreateEnqueue
    \/ UpdatePresentation
    \/ DeletePresentation
    \/ DeleteSlide
    \/ Tick
    \/ \E id \in Ids : SqsRedeliver(id)
    \/ \E w \in Workers :
          \/ Receive(w)
          \/ W_Generate(w)
          \/ W_SaveBatch(w)
          \/ W_Retry(w)
          \/ W_MarkCompleted(w)
          \/ W_MarkFailed(w)
          \/ W_Next(w)
          \/ W_Throw(w)
          \/ W_Timeout(w)

Spec == Init /\ [][Next]_vars

(***************************************************************************)
(* The consumer on its own: every presentation has been submitted, and the *)
(* job messages may carry the optional connectionId.                       *)
(***************************************************************************)
ConnectionIds == {Undefined, "conn-1"}

RECURSIVE Submitted(_, _)
\* The table and the queue after POST /presentations has succeeded for the
\* ids 1..n, the job messages carrying connectionId.
Submitted(n, connectionId) ==
    IF n = 0 THEN [table |-> EmptyTable, queue |-> [id \in {} |-> Null]]
    ELSE LET before == Submitted(n - 1, connectionId)
             saved == createPresentationSave(before.table, FALSE, Undefined,
                          [title |-> "t1", description |-> "d1"], n, 1, 0)
             job == removeUndefinedValues(
                        saved.job @@ [connectionId |-> connectionId])
         IN  [table |-> saved.table,
              queue |-> createPresentationEnqueue(before.queue,
                            "https://sqs/queue", job, NoError).queue]

InitWorker ==
    /\ \E connectionId \in ConnectionIds :
          /\ table = Submitted(MaxPresentations, connectionId).table
          /\ queue = Submitted(MaxPresentations, connectionId).queue
    /\ clock = 1
    /\ queueUrl = "https://sqs/queue"
    /\ wsEndpoint \in {"", "https://ws/prod"}
    /\ authEnabled = FALSE
    /\ userWhitelist = <<>>
    /\ nextId = MaxPresentations + 1
    /\ creating = Null
    /\ worker = [w \in Workers |-> IdleWorker]
    /\ sent = {}
    /\ call = NoCall
    /\ finalized = {}
    /\ statusWrites = [id \in Ids |-> 0]
    /\ pending = [c \in Clients |-> Null]

NextWorker ==
    \/ Tick
    \/ \E id \in Ids : SqsRedeliver(id)
    \/ \E w \in Workers :
          \/ Receive(w)
          \/ W_Generate(w)
          \/ W_SaveBatch(w)
          \/ W_Retry(w)
          \/ W_MarkCompleted(w)
          \/ W_NotifyCompleted(w)
          \/ W_MarkFailed(w)
          \/ W_NotifyFailed(w)
          \/ W_Next(w)
          \/ W_Throw(w)
          \/ W_Timeout(w)

SpecWorker == InitWorker /\ [][NextWorker]_vars

(***************************************************************************)
(* The repository on its own: a caller makes up to MaxCalls calls, one     *)
(* after the other.                                                        *)
(***************************************************************************)
MaxCalls == 3

\* The number of presentation ids the caller of the repository uses.
MaxStoreIds == 2

StoreIds == 1..MaxStoreIds

\* The record of a call, without the call before it.
Summary(c) == [op |-> c.op, id |-> c.id, arg |-> c.arg]

\* call after the call op(id, arg).
Called(op, id, arg) ==
    [op |-> op, id |-> id, arg |-> arg, prev |-> Summary(call), n |-> call.n + 1]

MetadataInputs(id) ==
    {[id |-> id, title |-> m[1], description |-> "d1", userId |-> m[2],
      status |-> "processing", theme |-> DefaultTheme] :
        m \in {<<"t1", "a@x.com">>, <<"t2", "b@x.com">>}}

\* A call savePresentationMetadata({id, ...}).
Call_savePresentationMetadata(id) ==
    /\ call.n < MaxCalls
    /\ \E metadata \in MetadataInputs(id) :
          /\ table' = savePresentationMetadata(table, metadata, clock)
          /\ call' = Called("savePresentationMetadata", id, metadata)
    /\ TrackFinalized
    /\ UNCHANGED <<queue, clock, queueUrl, wsEndpoint, pending, authEnabled, userWhitelist, nextId,
                   creating, worker, sent, statusWrites>>

Repo_savePresentationMetadata == \E id \in StoreIds : Call_savePresentationMetadata(id)

\* A call saveSlides(id, slides).
Call_saveSlides(id) ==
    /\ call.n < MaxCalls
    /\ \E slides \in GeneratedSlides : \E lost \in SUBSET (0..(Len(slides) - 1)) :
          /\ table' = saveSlides(table, id, slides, clock, lost)
          /\ call' = Called("saveSlides", id, slides)
    /\ TrackFinalized
    /\ UNCHANGED <<queue, clock, queueUrl, wsEndpoint, pending, authEnabled, userWhitelist, nextId,
                   creating, worker, sent, statusWrites>>

Repo_saveSlides == \E id \in StoreIds : Call_saveSlides(id)

Repo_updatePresentationStatus ==
    /\ call.n < MaxCalls
    /\ \E id \in StoreIds : \E status \in {"processing", "completed", "failed"} :
       \E errorMessage \in {Undefined, "", "boom"} :
          /\ table' = updatePresentationStatus(table, id, status, errorMessage, clock)
          /\ call' = Called("updatePresentationStatus", id,
                            [status |-> status, errorMessage |-> errorMessage])
    /\ TrackFinalized
    /\ UNCHANGED <<queue, clock, queueUrl, wsEndpoint, pending, authEnabled, userWhitelist, nextId,
                   creating, worker, sent, statusWrites>>

\* The updates a caller passes to updatePresentationMetadata.
MetadataUpdates ==
    {[title |-> title, description |-> Undefined, theme |-> Undefined] :
        title \in {"t3", Undefined}}
        \cup {[title |-> Undefined, description |-> "", theme |-> Undefined],
              [title |-> Undefined, description |-> Undefined, theme |-> "dark"],
              [title |-> "t3", description |-> "d3", theme |-> "dark"]}

Repo_updatePresentationMetadata ==
    /\ call.n < MaxCalls
    /\ \E id \in StoreIds : \E updates \in MetadataUpdates :
          /\ table' = updatePresentationMetadata(table, id, updates, clock)
          /\ call' = Called("updatePresentationMetadata", id, updates)
    /\ TrackFinalized
    /\ UNCHANGED <<queue, clock, queueUrl, wsEndpoint, pending, authEnabled, userWhitelist, nextId,
                   creating, worker, sent, statusWrites>>

Repo_deletePresentation ==
    /\ call.n < MaxCalls
    /\ \E id \in StoreIds :
       \E unprocessed \in UpTo(QueryPartition(table, createPK(id)), MaxUnprocessed) :
          /\ table' = deletePresentation(table, id, unprocessed)
          /\ call' = Called("deletePresentation", id, unprocessed)
    /\ TrackFinalized
    /\ UNCHANGED <<queue, clock, queueUrl, wsEndpoint, pending, authEnabled, userWhitelist, nextId,
                   creating, worker, sent, statusWrites>>

InitStore ==
    /\ table = EmptyTable
    /\ queue = [id \in {} |-> Null]
    /\ clock = 1
    /\ queueUrl = ""
    /\ wsEndpoint = ""
    /\ authEnabled = FALSE
    /\ userWhitelist = <<>>
    /\ nextId = 1
    /\ creating = Null
    /\ worker = [w \in Workers |-> IdleWorker]
    /\ sent = {}
    /\ call = NoCall
    /\ finalized = {}
    /\ statusWrites = [id \in Ids |-> 0]
    /\ pending = [c \in Clients |-> Null]

NextStore ==
    \/ Repo_savePresentationMetadata
    \/ Repo_saveSlides
    \/ Repo_updatePresentationStatus
    \/ Repo_updatePresentationMetadata
    \/ Repo_deletePresentation
    \/ Tick

SpecStore == InitStore /\ [][NextStore]_vars

(***************************************************************************)
(* Repository calls of concurrent callers.  A call takes its timestamp     *)
(* when it starts; its write reaches the table in a later step, and the    *)
(* writes of two callers reach it in either order.                         *)
(***************************************************************************)
\* The call of caller c in flight: what it was given, the Date.now() it
\* took, and for savePresentationMetadata the record it read.
InFlight(op, id, arg, now, pc) ==
    [op |-> op, id |-> id, arg |-> arg, now |-> now, pc |-> pc, existing |-> Null]

\* The calls started and not yet counted stay within MaxCalls.
MayStart(c) ==
    /\ pending[c] = Null
    /\ call.n + Cardinality({d \in Clients : pending[d] # Null}) < MaxCalls

\* savePresentationMetadata: const now = Date.now()
Begin_savePresentationMetadata(c) ==
    /\ MayStart(c)
    /\ \E id \in PathIds : \E metadata \in MetadataInputs(id) :
          pending' = [pending EXCEPT ![c] =
              InFlight("savePresentationMetadata", id, metadata, clock, "read")]
    /\ UNCHANGED <<table, queue, clock, queueUrl, wsEndpoint, authEnabled, userWhitelist, nextId,
                   creating, worker, sent, call, finalized, statusWrites>>

\* savePresentationMetadata: existing = await getPresentationMetadata(id)
Read_savePresentationMetadata(c) ==
    /\ pending[c] # Null
    /\ pending[c].pc = "read"
    /\ pending' = [pending EXCEPT ![c] =
          [@ EXCEPT !.pc = "write",
                    !.existing = getPresentationMetadata(table, pending[c].id)]]
    /\ UNCHANGED <<table, queue, clock, queueUrl, wsEndpoint, authEnabled, userWhitelist, nextId,
                   creating, worker, sent, call, finalized, statusWrites>>

\* updatePresentationStatus: ":updatedAt": Date.now()
Begin_updatePresentationStatus(c) ==
    /\ MayStart(c)
    /\ \E id \in PathIds : \E status \in TerminalStatuses :
          pending' = [pending EXCEPT ![c] =
              InFlight("updatePresentationStatus", id,
                       [status |-> status, errorMessage |-> Undefined], clock, "write")]
    /\ UNCHANGED <<table, queue, clock, queueUrl, wsEndpoint, authEnabled, userWhitelist, nextId,
                   creating, worker, sent, call, finalized, statusWrites>>

\* updatePresentationMetadata: ":updatedAt": Date.now()
Begin_updatePresentationMetadata(c) ==
    /\ MayStart(c)
    /\ \E id \in PathIds : \E updates \in MetadataUpdates :
          pending' = [pending EXCEPT ![c] =
              InFlight("updatePresentationMetadata", id, updates, clock, "write")]
    /\ UNCHANGED <<table, queue, clock, queueUrl, wsEndpoint, authEnabled, userWhitelist, nextId,
                   creating, worker, sent, call, finalized, statusWrites>>

\* Mutation of landed: savePresentationMetadata reads the record again as
\* it writes.
landedIsolated(tbl, p) ==
    CASE p.op = "savePresentationMetadata" ->
            PutItem(tbl, metadataItem(p.arg, getPresentationMetadata(tbl, p.id), p.now))
      [] p.op = "updatePresentationStatus" ->
            updatePresentationStatus(tbl, p.id, p.arg.status, p.arg.errorMessage, p.now)
      [] p.op = "updatePresentationMetadata" ->
            updatePresentationMetadata(tbl, p.id, p.arg, p.now)

\* The table after the PutCommand or UpdateCommand of the call p.
landed(tbl, p) ==
    CASE p.op = "savePresentationMetadata" ->
            PutItem(tbl, metadataItem(p.arg, p.existing, p.now))
      [] p.op = "updatePresentationStatus" ->
            updatePresentationStatus(tbl, p.id, p.arg.status, p.arg.errorMessage, p.now)
      [] p.op = "updatePresentationMetadata" ->
            updatePresentationMetadata(tbl, p.id, p.arg, p.now)

\* await ddbDocClient.send(...): the write of caller c reaches the table.
Land(c) ==
    /\ pending[c] # Null
    /\ pending[c].pc = "write"
    /\ table' = landed(table, pending[c])
    /\ call' = Called(pending[c].op, pending[c].id,
                      [arg |-> pending[c].arg, now |-> pending[c].now])
    /\ pending' = [pending EXCEPT ![c] = Null]
    /\ TrackFinalized
    /\ UNCHANGED <<queue, clock, queueUrl, wsEndpoint, authEnabled, userWhitelist, nextId,
                   creating, worker, sent, statusWrites>>

NextRace ==
    \/ \E c \in Clients : Begin_savePresentationMetadata(c)
    \/ \E c \in Clients : Read_savePresentationMetadata(c)
    \/ \E c \in Clients : Begin_updatePresentationStatus(c)
    \/ \E c \in Clients : Begin_updatePresentationMetadata(c)
    \/ \E c \in Clients : Land(c)
    \/ Tick

SpecRace == InitStore /\ [][NextRace]_vars

(***************************************************************************)
(* The HTTP handlers alone, on a store filled by repository calls: every   *)
(* request is one step that records its inputs and its response in call.   *)
(***************************************************************************)
\* The routes of the HTTP handlers.
Routes ==
    {"GET /presentations/{id}", "GET /presentations", "PUT /presentations/{id}",
     "DELETE /presentations/{id}", "PUT /presentations/{id}/slides/{index}",
     "POST /presentations/{id}/slides", "DELETE /presentations/{id}/slides/{index}",
     "POST /presentations/{id}/refine"}

\* A request has been answered: a behaviour fills the store and then makes
\* one request.
Answered == call.op \in Routes

\* call after the request op on id by the caller requireAuth yielded.
Requested(op, id, enabled, auth, input, result) ==
    Called(op, id, [enabled |-> enabled, auth |-> auth, input |-> input,
                    response |-> result.response,
                    generated |-> "generated" \in DOMAIN result /\ result.generated])

\* The slide indices a BatchWriteCommand of a handler leaves unprocessed.
LostPuts == UpTo(0..(MaxSlides - 1), MaxUnprocessed)

\* What the generation client does for updateSlides and refinePresentation:
\* it throws, or it returns affectedSlides.
Generations ==
    {[error |-> e, affectedSlides |-> <<>>] : e \in GenerationErrors}
        \cup {[error |-> NoError, affectedSlides |-> a] : a \in AffectedSlides}

Http_Get ==
    /\ call.n < MaxCalls /\ ~Answered
    /\ \E enabled \in AuthModes : \E caller \in Callers : \E id \in StoreIds :
          LET result == getPresentationRequest(table, enabled, caller, id, 0)
          IN  /\ table' = result.table
              /\ call' = Requested("GET /presentations/{id}", id, enabled, caller, Null, result)
    /\ TrackFinalized
    /\ UNCHANGED <<queue, clock, queueUrl, wsEndpoint, pending, authEnabled, userWhitelist, nextId,
                   creating, worker, sent, statusWrites>>

Http_List ==
    /\ call.n < MaxCalls /\ ~Answered
    /\ \E enabled \in AuthModes : \E auth \in AuthsOf(enabled) :
          LET result == listPresentationsHandler(table, enabled, auth, 0)
          IN  /\ table' = result.table
              /\ call' = Requested("GET /presentations", 0, enabled, auth, Null, result)
    /\ TrackFinalized
    /\ UNCHANGED <<queue, clock, queueUrl, wsEndpoint, pending, authEnabled, userWhitelist, nextId,
                   creating, worker, sent, statusWrites>>

Http_UpdatePresentation ==
    /\ call.n < MaxCalls /\ ~Answered
    /\ \E enabled \in AuthModes : \E auth \in AuthsOf(enabled) : \E id \in PathIds : \E body \in UpdateBodies :
          LET result == updatePresentationHandler(table, enabled, auth, id, body,
                                                  clock, 0)
          IN  /\ table' = result.table
              /\ call' = Requested("PUT /presentations/{id}", id, enabled, auth,
                                   [body |-> body], result)
    /\ TrackFinalized
    /\ UNCHANGED <<queue, clock, queueUrl, wsEndpoint, pending, authEnabled, userWhitelist, nextId,
                   creating, worker, sent, statusWrites>>

Http_DeletePresentation ==
    /\ call.n < MaxCalls /\ ~Answered
    /\ \E enabled \in AuthModes : \E auth \in AuthsOf(enabled) : \E id \in PathIds :
       \E unprocessed \in UpTo(QueryPartition(table, createPK(id)), MaxUnprocessed) :
          LET result == deletePresentationHandler(table, enabled, auth, id, 0,
                                                  unprocessed)
          IN  /\ table' = result.table
              /\ call' = Requested("DELETE /presentations/{id}", id, enabled, auth,
                                   [unprocessed |-> unprocessed], result)
    /\ TrackFinalized
    /\ UNCHANGED <<queue, clock, queueUrl, wsEndpoint, pending, authEnabled, userWhitelist, nextId,
                   creating, worker, sent, statusWrites>>

\* A request with a body that is rejected before the store is read has no
\* generation and no write to draw.
Http_UpdateSlide ==
    /\ call.n < MaxCalls /\ ~Answered
    /\ \E enabled \in AuthModes : \E auth \in AuthsOf(enabled) : \E id \in PathIds : \E slideIndex \in 0..MaxSlides :
       \E body \in InstructionBodies :
       \E generation \in IF Truthy(Attr(body, "instruction"))
                          THEN Generations ELSE {CHOOSE g \in Generations : TRUE} :
       \E lost \in IF Truthy(Attr(body, "instruction")) /\ generation.error = NoError
                    THEN LostPuts ELSE {{}} :
          LET result == updateSlideHandler(table, enabled, auth, id, slideIndex, body,
                            clock, 0, generation.error, generation.affectedSlides, lost)
          IN  /\ table' = result.table
              /\ call' = Requested("PUT /presentations/{id}/slides/{index}", id, enabled, auth,
                                   [slideIndex |-> slideIndex, body |-> body,
                                    generation |-> generation, lost |-> lost], result)
    /\ TrackFinalized
    /\ UNCHANGED <<queue, clock, queueUrl, wsEndpoint, pending, authEnabled, userWhitelist, nextId,
                   creating, worker, sent, statusWrites>>

Http_AddSlide ==
    /\ call.n < MaxCalls /\ ~Answered
    /\ \E enabled \in AuthModes : \E auth \in AuthsOf(enabled) : \E id \in PathIds : \E body \in AddSlideBodies :
       \E e \in IF Truthy(Attr(body, "instruction"))
                 THEN GenerationErrors \cup {NoError} ELSE {NoError} :
       \E lost \in IF Truthy(Attr(body, "instruction")) /\ e = NoError
                    THEN UpTo(0..MaxSlides, MaxUnprocessed) ELSE {{}} :
          LET result == addSlideHandler(table, enabled, auth, id, body, clock, 0,
                                        e, "s3", lost)
          IN  /\ table' = result.table
              /\ call' = Requested("POST /presentations/{id}/slides", id, enabled, auth,
                                   [body |-> body, error |-> e, lost |-> lost], result)
    /\ TrackFinalized
    /\ UNCHANGED <<queue, clock, queueUrl, wsEndpoint, pending, authEnabled, userWhitelist, nextId,
                   creating, worker, sent, statusWrites>>

Http_DeleteSlide ==
    /\ call.n < MaxCalls /\ ~Answered
    /\ \E enabled \in AuthModes : \E auth \in AuthsOf(enabled) : \E id \in PathIds : \E slideIndex \in 0..MaxSlides :
       \E lost \in SUBSET (0..(MaxSlides - 2)) :
          LET result == deleteSlideHandler(table, enabled, auth, id, slideIndex,
                                           clock, 0, lost)
          IN  /\ table' = result.table
              /\ call' = Requested("DELETE /presentations/{id}/slides/{index}", id, enabled, auth,
                                   [slideIndex |-> slideIndex, lost |-> lost], result)
    /\ TrackFinalized
    /\ UNCHANGED <<queue, clock, queueUrl, wsEndpoint, pending, authEnabled, userWhitelist, nextId,
                   creating, worker, sent, statusWrites>>

Http_Refine ==
    /\ call.n < MaxCalls /\ ~Answered
    /\ \E enabled \in AuthModes : \E auth \in AuthsOf(enabled) : \E id \in PathIds : \E body \in InstructionBodies :
       \E generation \in IF Truthy(Attr(body, "instruction"))
                          THEN Generations ELSE {CHOOSE g \in Generations : TRUE} :
       \E lost \in IF Truthy(Attr(body, "instruction")) /\ generation.error = NoError
                    THEN LostPuts ELSE {{}} :
          LET result == refineHandler(table, enabled, auth, id, body, clock, 0,
                            generation.error, generation.affectedSlides, lost)
          IN  /\ table' = result.table
              /\ call' = Requested("POST /presentations/{id}/refine", id, enabled, auth,
                                   [body |-> body, generation |-> generation,
                                    lost |-> lost], result)
    /\ TrackFinalized
    /\ UNCHANGED <<queue, clock, queueUrl, wsEndpoint, pending, authEnabled, userWhitelist, nextId,
                   creating, worker, sent, statusWrites>>

InitHttp ==
    /\ table = EmptyTable
    /\ queue = [id \in {} |-> Null]
    /\ clock = 1
    /\ queueUrl = ""
    /\ wsEndpoint = ""
    /\ authEnabled \in BOOLEAN
    /\ userWhitelist = <<>>
    /\ nextId = 1
    /\ creating = Null
    /\ worker = [w \in Workers |-> IdleWorker]
    /\ sent = {}
    /\ call = NoCall
    /\ finalized = {}
    /\ statusWrites = [id \in Ids |-> 0]
    /\ pending = [c \in Clients |-> Null]

\* The store is filled as the create handler and the worker fill it.
Http_Created == ~Answered /\ \E id \in StoreIds : Call_savePresentationMetadata(id)
Http_Generated == ~Answered /\ \E id \in PathIds : Call_saveSlides(id)

NextHttp ==
    \/ Http_Created
    \/ Http_Generated
    \/ Http_Get
    \/ Http_List
    \/ Http_UpdatePresentation
    \/ Http_DeletePresentation
    \/ Http_UpdateSlide
    \/ Http_AddSlide
    \/ Http_DeleteSlide
    \/ Http_Refine
    \/ Tick

SpecHttp == InitHttp /\ [][NextHttp]_vars

(***************************************************************************)
(* saveSlides command by command: one caller saves a list that takes one,  *)
(* two or three batches.  With one caller the order in which the puts of   *)
(* one BatchWriteCommand land is not observable, so a command is one step. *)
(***************************************************************************)
\* The lengths of the lists saved: none, one batch, and up to a third batch.
SaveLengths ==
    {0, 1, BatchLimit, BatchLimit + 1, 2 * BatchLimit, 2 * BatchLimit + 1}

SlideList(n) == [j \in 1..n |-> "s1"]

\* The locals of saveSlides(id, slides): the offset i of the loop, the
\* UnprocessedItems of the attempt, and as history the commands sent (log)
\* and the indices a retry left unprocessed (lost).
Saving(id, slides, now) ==
    [op |-> "saveSlides", id |-> id, arg |-> slides, now |-> now,
     pc |-> IF Len(slides) = 0 THEN "returned" ELSE "send",
     i |-> 0, unprocessed |-> {}, error |-> NoError, log |-> <<>>, lost |-> {}]

Sent(attempt, indices) == [attempt |-> attempt, indices |-> indices]

\* i += 25; i < writeRequests.length
loopNext(p) ==
    IF p.i + BatchLimit < Len(p.arg)
    THEN [p EXCEPT !.pc = "send", !.i = @ + BatchLimit, !.unprocessed = {}]
    ELSE [p EXCEPT !.pc = "returned", !.unprocessed = {}]

\* Mutation of afterAttempt: unprocessed items are retried again and again.
afterAttemptRetrying(p, unprocessed) ==
    IF unprocessed # {}
    THEN [p EXCEPT !.pc = "retry", !.unprocessed = unprocessed]
    ELSE loopNext(p)

\* if (result.UnprocessedItems && Object.keys(...).length > 0): the retry is
\* made after the first attempt of a batch only; its result is dropped.
afterAttempt(p, unprocessed) ==
    IF p.pc = "send" /\ unprocessed # {}
    THEN [p EXCEPT !.pc = "retry", !.unprocessed = unprocessed]
    ELSE loopNext([p EXCEPT !.lost = @ \cup unprocessed])

\* catch (error) { throw error }
saveThrows(p, e) == [p EXCEPT !.pc = "threw", !.error = e, !.unprocessed = {}]

\* const now = Date.now(); const writeRequests = slides.map(...)
Save_Begin(c) ==
    /\ pending[c] = Null
    /\ \E id \in PathIds : \E n \in SaveLengths :
          pending' = [pending EXCEPT ![c] = Saving(id, SlideList(n), clock)]
    /\ UNCHANGED <<table, queue, clock, queueUrl, wsEndpoint, authEnabled, userWhitelist,
                   nextId, creating, worker, sent, call, finalized, statusWrites>>

\* await ddbDocClient.send(new BatchWriteCommand({RequestItems: batch}))
Save_Batch(c) ==
    /\ pending[c] # Null
    /\ pending[c].pc = "send"
    /\ LET p == pending[c]
           batch == batchAt(writeRequests(p.id, p.arg, p.now), p.i)
           logged == [p EXCEPT !.log = Append(@, Sent("first", BatchIndices(batch)))]
       IN  \/ \E e \in StoreErrors("saveSlides") :
                 /\ pending' = [pending EXCEPT ![c] = saveThrows(logged, e)]
                 /\ table' = table
           \/ \E unprocessed \in UpTo(BatchIndices(batch), MaxUnprocessed) :
                 /\ table' = BatchPut(table, batch, unprocessed)
                 /\ pending' = [pending EXCEPT ![c] = afterAttempt(logged, unprocessed)]
    /\ UNCHANGED <<queue, clock, queueUrl, wsEndpoint, authEnabled, userWhitelist,
                   nextId, creating, worker, sent, call, finalized, statusWrites>>

\* await ddbDocClient.send(new BatchWriteCommand({RequestItems:
\* result.UnprocessedItems})), a second later
Save_Retry(c) ==
    /\ pending[c] # Null
    /\ pending[c].pc = "retry"
    /\ LET p == pending[c]
           batch == batchAt(writeRequests(p.id, p.arg, p.now), p.i)
           again == SelectSeq(batch, LAMBDA r : r.slideIndex \in p.unprocessed)
           logged == [p EXCEPT !.log = Append(@, Sent("retry", BatchIndices(again)))]
       IN  \/ \E e \in StoreErrors("saveSlides") :
                 /\ pending' = [pending EXCEPT ![c] = saveThrows(logged, e)]
                 /\ table' = table
           \/ \E unprocessed \in SUBSET p.unprocessed :
                 /\ table' = BatchPut(table, again, unprocessed)
                 /\ pending' = [pending EXCEPT ![c] = afterAttempt(logged, unprocessed)]
    /\ UNCHANGED <<queue, clock, queueUrl, wsEndpoint, authEnabled, userWhitelist,
                   nextId, creating, worker, sent, call, finalized, statusWrites>>

NextBatches ==
    \/ Save_Begin(1)
    \/ Save_Batch(1)
    \/ Save_Retry(1)

SpecBatches == InitStore /\ [][NextBatches]_vars

(***************************************************************************)
(* Two refine requests on a stored presentation, run by concurrent         *)
(* invocations.  A request reads the presentation, gets its affected       *)
(* slides and sends the whole list in one BatchWriteCommand (a list has    *)
(* fewer than 25 slides here); the puts of a command reach the table one   *)
(* by one, in any order, between those of the other request.               *)
(***************************************************************************)
\* A presentation with MaxSlides slides, as the worker leaves it.
StoredPresentation ==
    saveSlides(
        savePresentationMetadata(EmptyTable,
            [id |-> 1, title |-> "t1", description |-> "d1", userId |-> "a@x.com",
             status |-> "completed", theme |-> DefaultTheme], 1),
        1, [j \in 1..MaxSlides |-> "s1"], 1, {})

\* The slide the generation client returns to the request of caller c.
RefinedSlide(c) == IF c = 1 THEN "s3" ELSE "s4"

\* What refinePresentation returns to caller c: the first k slides, or one
\* slide.
RefinedBy(c) ==
    {[j \in 1..k |-> [slideIndex |-> j - 1, slide |-> RefinedSlide(c)]] : k \in 0..MaxSlides}
        \cup {<<[slideIndex |-> j, slide |-> RefinedSlide(c)]>> : j \in 0..(MaxSlides - 1)}

\* The request of a caller after its reads and its generation call: the
\* list it saves, the Date.now() of saveSlides, the puts of the command in
\* flight (todo) and, as history, when each of its puts landed.
Refining(id, slides, now) ==
    [op |-> "POST /presentations/{id}/refine", id |-> id, arg |-> slides, now |-> now,
     pc |-> IF Len(slides) = 0 THEN "done" ELSE "send",
     todo |-> 0..(Len(slides) - 1),
     landedAt |-> [j \in 0..(Len(slides) - 1) |-> 0]]

\* Mutation of putLands: a put does not replace a record that is newer than
\* its own.
putLandsIfNewer(tbl, request) ==
    IF /\ [pk |-> request.pk, sk |-> request.sk] \in DOMAIN tbl
       /\ tbl[[pk |-> request.pk, sk |-> request.sk]].updatedAt > request.updatedAt
    THEN tbl
    ELSE PutItem(tbl, request)

\* One PutRequest of a BatchWriteCommand is applied: it has no condition.
putLands(tbl, request) == PutItem(tbl, request)

\* getPresentationMetadata, getPresentation, refinePresentation, the loop
\* over affectedSlides, and saveSlides up to its BatchWriteCommand.
Refine_Begin(c) ==
    /\ pending[c] = Null
    /\ \E id \in PathIds : \E affectedSlides \in RefinedBy(c) :
          LET presentation == getPresentation(table, id)
          IN  /\ presentation # Null
              /\ pending' = [pending EXCEPT ![c] =
                     Refining(id, applyAffected(presentation.slides, affectedSlides), clock)]
    /\ UNCHANGED <<table, queue, clock, queueUrl, wsEndpoint, authEnabled, userWhitelist,
                   nextId, creating, worker, sent, call, finalized, statusWrites>>

\* A put of the command (or of its retry) of caller c reaches the table.
Refine_Put(c) ==
    /\ pending[c] # Null
    /\ pending[c].pc \in {"send", "retry"}
    /\ \E j \in pending[c].todo :
          /\ table' = putLands(table,
                          writeRequests(pending[c].id, pending[c].arg, pending[c].now)[j + 1])
          /\ call' = Called("PutRequest", pending[c].id, [by |-> c, slideIndex |-> j])
          /\ pending' = [pending EXCEPT ![c].todo = @ \ {j},
                                        ![c].landedAt[j] = call.n + 1]
    /\ UNCHANGED <<queue, clock, queueUrl, wsEndpoint, authEnabled, userWhitelist,
                   nextId, creating, worker, sent, finalized, statusWrites>>

\* The command of caller c returns, the puts still to do being its
\* UnprocessedItems: they are sent once more after the first attempt and
\* dropped after the retry, and the handler answers.
Refine_Return(c) ==
    /\ pending[c] # Null
    /\ pending[c].pc \in {"send", "retry"}
    /\ Cardinality(pending[c].todo) <= MaxUnprocessed
    /\ pending' = [pending EXCEPT ![c] =
          IF @.pc = "send" /\ @.todo # {}
          THEN [@ EXCEPT !.pc = "retry"]
          ELSE [@ EXCEPT !.pc = "done", !.todo = {}]]
    /\ UNCHANGED <<table, queue, clock, queueUrl, wsEndpoint, authEnabled, userWhitelist,
                   nextId, creating, worker, sent, call, finalized, statusWrites>>

InitEdits ==
    /\ table = StoredPresentation
    /\ queue = [id \in {} |-> Null]
    /\ clock = 1
    /\ queueUrl = ""
    /\ wsEndpoint = ""
    /\ authEnabled = FALSE
    /\ userWhitelist = <<>>
    /\ nextId = 2
    /\ creating = Null
    /\ worker = [w \in Workers |-> IdleWorker]
    /\ sent = {}
    /\ call = NoCall
    /\ finalized = {1}
    /\ statusWrites = [id \in Ids |-> 0]
    /\ pending = [c \in Clients |-> Null]

NextEdits ==
    \/ \E c \in Clients : Refine_Begin(c)
    \/ \E c \in Clients : Refine_Put(c)
    \/ \E c \in Clients : Refine_Return(c)
    \/ Tick

SpecEdits == InitEdits /\ [][NextEdits]_vars

(***************************************************************************)
(* Authentication (openai.ts).  An email, and a piece of USER_WHITELIST,   *)
(* is a sequence of characters; <<>> is the empty or missing string.       *)
(***************************************************************************)
toLowerCaseChar(c) ==
    CASE c = "A" -> "a"
      [] c = "B" -> "b"
      [] c = "X" -> "x"
      [] OTHER -> c

\* String.prototype.toLowerCase
toLowerCase(s) == [i \in DOMAIN s |-> toLowerCaseChar(s[i])]

RECURSIVE trimStart(_)
trimStart(s) == IF s # <<>> /\ Head(s) = " " THEN trimStart(Tail(s)) ELSE s

RECURSIVE trimEnd(_)
trimEnd(s) ==
    IF s # <<>> /\ s[Len(s)] = " " THEN trimEnd(SubSeq(s, 1, Len(s) - 1)) ELSE s

\* String.prototype.trim
trim(s) == trimEnd(trimStart(s))

\* if (!whitelist) return []; whitelist.split(",").map(e => e.trim().toLowerCase())
getWhitelist(env) ==
    IF env = <<>> THEN <<>>
    ELSE [i \in DOMAIN env |-> toLowerCase(trim(env[i]))]

\* Array.prototype.includes
includes(array, x) == \E i \in DOMAIN array : array[i] = x

\* isUserWhitelisted(email)
isUserWhitelisted(env, email) ==
    LET whitelist == getWhitelist(env)
    IN  IF Len(whitelist) = 0 THEN TRUE
        ELSE includes(whitelist, toLowerCase(email))

\* An AuthUser; its name plays no part in authentication.
AuthUser(email) == [email |-> email]

\* What an authentication function hands back: a user or null, or the
\* message of the error it throws.
Returns(user) == [user |-> user, error |-> ""]
Throws(message) == [user |-> Null, error |-> message]

\* verifyGoogleToken(token).  userinfo is the answer of Google's userinfo
\* endpoint to the token (threw when fetch throws), ticket what getOAuthClient
\* and verifyIdToken make of it (threw when either throws).
verifyGoogleToken(userinfo, ticket) ==
    IF ~userinfo.threw /\ userinfo.ok /\ userinfo.email # <<>>
    THEN AuthUser(userinfo.email)
    ELSE IF ticket.threw \/ ticket.email = <<>> THEN Null
    ELSE AuthUser(ticket.email)

\* authHeader.startsWith("Bearer "); a header is <<scheme, token>>.
startsWithBearer(authHeader) == authHeader[1] = "Bearer "

\* getUserFromAuthHeader(authHeader)
getUserFromAuthHeader(env, authHeader, userinfo, ticket) ==
    IF authHeader = <<>> \/ ~startsWithBearer(authHeader) THEN Returns(Null)
    ELSE LET user == verifyGoogleToken(userinfo, ticket)
         IN  IF user = Null THEN Returns(Null)
             ELSE IF ~isUserWhitelisted(env, user.email)
             THEN Throws("User not authorized")
             ELSE Returns(user)

\* getUserFromEvent(event)
getUserFromEvent(env, event, userinfo, ticket) ==
    IF event.lambda # <<>> THEN Returns(AuthUser(event.lambda))
    ELSE IF event.claims # <<>> THEN Returns(AuthUser(event.claims))
    ELSE getUserFromAuthHeader(env,
             IF event.authorization # <<>> THEN event.authorization
             ELSE event.Authorization,
             userinfo, ticket)

\* requireAuth(event)
requireAuth(env, event, userinfo, ticket) ==
    LET found == getUserFromEvent(env, event, userinfo, ticket)
    IN  IF found.error = "" /\ found.user = Null THEN Throws("Unauthorized")
        ELSE found

Alice == <<"a", "@", "x">>
AliceUpper == <<"A", "@", "X">>
Bob == <<"b", "@", "x">>
Emails == {Alice, AliceUpper, Bob}

\* The values of USER_WHITELIST: unset or "", and lists of pieces.
Whitelists ==
    {<<>>, <<Alice>>, <<<<" ", "A", "@", "x", " ">>>>, <<Bob>>,
     <<Alice, <<" ", "B", "@", "X">>>>, <<<<" ">>>>}

AuthHeaders == {<<>>, <<"Basic ", "t">>, <<"Bearer ", "t">>}

\* The events a handler can be invoked with, as far as requireAuth reads
\* them: requestContext.authorizer.lambda.email, .claims.email, and the
\* two spellings of the Authorization header.
Events ==
    [lambda : Emails \cup {<<>>}, claims : Emails \cup {<<>>},
     authorization : AuthHeaders, Authorization : AuthHeaders]

UserinfoResponses ==
    {[threw |-> TRUE, ok |-> FALSE, email |-> <<>>]}
        \cup [threw : {FALSE}, ok : BOOLEAN, email : Emails \cup {<<>>}]

Tickets ==
    {[threw |-> TRUE, email |-> <<>>]} \cup [threw : {FALSE}, email : Emails \cup {<<>>}]

\* One invocation of requireAuth per behaviour.
Auth_requireAuth ==
    /\ call.op # "requireAuth"
    /\ \E event \in Events : \E userinfo \in UserinfoResponses : \E ticket \in Tickets :
          call' = Called("requireAuth", 0,
                      [event |-> event, userinfo |-> userinfo, ticket |-> ticket,
                       result |-> requireAuth(userWhitelist, event, userinfo, ticket)])
    /\ UNCHANGED <<table, queue, clock, queueUrl, wsEndpoint, pending, authEnabled,
                   userWhitelist, nextId, creating, worker, sent, finalized,
                   statusWrites>>

InitAuth ==
    /\ table = EmptyTable
    /\ queue = [id \in {} |-> Null]
    /\ clock = 1
    /\ queueUrl = ""
    /\ wsEndpoint = ""
    /\ authEnabled = TRUE
    /\ userWhitelist \in Whitelists
    /\ nextId = 1
    /\ creating = Null
    /\ worker = [w \in Workers |-> IdleWorker]
    /\ sent = {}
    /\ call = NoCall
    /\ finalized = {}
    /\ statusWrites = [id \in Ids |-> 0]
    /\ pending = [c \in Clients |-> Null]

NextAuth == Auth_requireAuth

SpecAuth == InitAuth /\ [][NextAuth]_vars

(***************************************************************************)
(* Deletes among jobs and edits in flight.  The create handler and the     *)
(* consumer run as in Spec; an add-slide request runs in two steps, its    *)
(* reads and checks and then its saveSlides, so that a delete can be       *)
(* answered between them; call keeps the last deletePresentation that      *)
(* returned.                                                               *)
(***************************************************************************)
\* The add-slide request of a caller after its checks and its generation
\* call: the list it will save and where the new slide went.
Adding(id, slides, position) ==
    [op |-> "POST /presentations/{id}/slides", id |-> id, arg |-> slides,
     position |-> position, pc |-> "save"]

\* POST /presentations/{id}/slides up to presentation.slides.splice: the
\* request passes every check of the handler and generateSlide returns.
AddSlide_Begin(c) ==
    /\ pending[c] = Null
    /\ \E auth \in Authorized : \E id \in PathIds : \E position \in 0..MaxSlides :
          LET body == [instruction |-> "i1", position |-> position]
              checked == addSlideHandler(table, authEnabled, auth, id, body, clock, 0,
                                         NoError, RefinedSlide(c), {})
          IN  /\ checked.response.statusCode = 200
              /\ pending' = [pending EXCEPT ![c] =
                     Adding(id, spliceIn(getPresentation(table, id).slides, position,
                                         RefinedSlide(c)), position)]
    /\ UNCHANGED <<table, queue, clock, queueUrl, wsEndpoint, authEnabled, userWhitelist,
                   nextId, creating, worker, sent, call, finalized, statusWrites>>

\* saveSlides of the request of caller c and its answer, 200.
AddSlide_Save(c) ==
    /\ pending[c] # Null
    /\ pending[c].pc = "save"
    /\ \E lost \in UpTo(0..(Len(pending[c].arg) - 1), MaxUnprocessed) :
          table' = saveSlides(table, pending[c].id, pending[c].arg, clock, lost)
    /\ pending' = [pending EXCEPT ![c].pc = "done"]
    /\ TrackFinalized
    /\ UNCHANGED <<queue, clock, queueUrl, wsEndpoint, authEnabled, userWhitelist,
                   nextId, creating, worker, sent, call, statusWrites>>

\* DELETE /presentations/{id}: when it reaches deletePresentation and that
\* returns, the request is answered 200 and the call is kept in call.  A
\* behaviour has one delete answered 200.
Delete_Returned ==
    /\ call = NoCall
    /\ \E auth \in Authorized : \E id \in PathIds :
       \E unprocessed \in UpTo(QueryPartition(table, createPK(id)), MaxUnprocessed) :
          LET result == deletePresentationHandler(table, authEnabled, auth, id, 0,
                                                  unprocessed)
          IN  /\ table' = result.table
              /\ call' = IF result.response.statusCode = 200
                         THEN Called("deletePresentation", id, unprocessed)
                         ELSE call
    /\ TrackFinalized
    /\ UNCHANGED <<queue, clock, queueUrl, wsEndpoint, pending, authEnabled, userWhitelist,
                   nextId, creating, worker, sent, statusWrites>>

InitDelete ==
    /\ table = EmptyTable
    /\ queue = [id \in {} |-> Null]
    /\ clock = 1
    /\ queueUrl = "https://sqs/queue"
    /\ wsEndpoint = ""
    /\ authEnabled = TRUE
    /\ userWhitelist = <<>>
    /\ nextId = 1
    /\ creating = Null
    /\ worker = [w \in Workers |-> IdleWorker]
    /\ sent = {}
    /\ call = NoCall
    /\ finalized = {}
    /\ statusWrites = [id \in Ids |-> 0]
    /\ pending = [c \in Clients |-> Null]

NextDelete ==
    \/ CreateSave
    \/ CreateEnqueue
    \/ Delete_Returned
    \/ AddSlide_Begin(1)
    \/ AddSlide_Save(1)
    \/ \E id \in Ids : SqsRedeliver(id)
    \/ \E w \in Workers :
          \/ Receive(w)
          \/ W_Generate(w)
          \/ W_SaveBatch(w)
          \/ W_Retry(w)
          \/ W_MarkCompleted(w)
          \/ W_MarkFailed(w)
          \/ W_Next(w)
          \/ W_Throw(w)
          \/ W_Timeout(w)

SpecDelete == InitDelete /\ [][NextDelete]_vars

(***************************************************************************)
(* Two add-slide requests on a stored presentation, run by concurrent      *)
(* invocations: each reads the list, splices its slide in and re-saves the *)
(* whole list.                                                             *)
(***************************************************************************)
NextAdds ==
    \/ \E c \in Clients : AddSlide_Begin(c)
    \/ \E c \in Clients : AddSlide_Save(c)
    \/ Tick

SpecAdds == InitEdits /\ [][NextAdds]_vars

(***************************************************************************)
(* The consumer on events of more than one record: one presentation more   *)
(* than in the other specifications has been submitted, so that SQS can    *)
(* hand an invocation two job messages in one event, in either order.      *)
(***************************************************************************)
EventIds == 1..(MaxPresentations + 1)

InitEvents ==
    /\ table = Submitted(MaxPresentations + 1, Undefined).table
    /\ queue = Submitted(MaxPresentations + 1, Undefined).queue
    /\ clock = 1
    /\ queueUrl = "https://sqs/queue"
    /\ wsEndpoint = ""
    /\ authEnabled = FALSE
    /\ userWhitelist = <<>>
    /\ nextId = MaxPresentations + 2
    /\ creating = Null
    /\ worker = [w \in Workers |-> IdleWorker]
    /\ sent = {}
    /\ call = NoCall
    /\ finalized = {}
    /\ statusWrites = [id \in EventIds |-> 0]
    /\ pending = [c \in Clients |-> Null]

\* SQS hands the invocation one event, of messages not delivered before.
Event_Receive(w) ==
    /\ \A id \in DOMAIN queue : queue[id].receives = 0
    /\ Receive(w)

NextEvents ==
    \E w \in Workers :
        \/ Event_Receive(w)
        \/ W_Generate(w)
        \/ W_SaveBatch(w)
        \/ W_Retry(w)
        \/ W_MarkCompleted(w)
        \/ W_MarkFailed(w)
        \/ W_Next(w)
        \/ W_Throw(w)

SpecEvents == InitEvents /\ [][NextEvents]_vars

(***************************************************************************)
(* The consumer with its scheduling: SQS hands a visible message to an     *)
(* idle invocation, and an invocation that is not cut off by the function  *)
(* timeout makes its next call.                                            *)
(***************************************************************************)
\* The next step of the run of invocation w.
W_Step(w) ==
    \/ W_Generate(w)
    \/ W_SaveBatch(w)
    \/ W_Retry(w)
    \/ W_MarkCompleted(w)
    \/ W_NotifyCompleted(w)
    \/ W_MarkFailed(w)
    \/ W_NotifyFailed(w)
    \/ W_Next(w)
    \/ W_Throw(w)

NextLive ==
    \/ Tick
    \/ \E id \in Ids : SqsRedeliver(id)
    \/ \E w \in Workers : Receive(w)
    \/ \E w \in Workers : W_Step(w)

SpecLive ==
    /\ InitWorker
    /\ [][NextLive]_vars
    /\ WF_vars(\E w \in Workers : Receive(w))
    /\ \A w \in Workers : WF_vars(W_Step(w))

(***************************************************************************)
(* Properties.                                                             *)
(***************************************************************************)
\* The presentation the run of invocation w works on.
RunId(w) == Message(w).presentationId
Running(w) == worker[w].pc # "idle"

\* The errorMessage attribute of the metadata item of id.
ErrorMessageOf(tbl, id) == Attr(GetItem(tbl, MetadataKey(id)), "errorMessage")

\* The slide items of the partition of id.
SlideItems(tbl, id) == {tbl[k] : k \in QuerySlides(tbl, createPK(id))}

\* Every slide of the list is stored at its index.
Stored(tbl, id, slides) ==
    \A j \in 1..Len(slides) :
        LET item == GetItem(tbl, SlideKey(id, j - 1))
        IN  item # Null /\ item.slide = slides[j]

\* C1: a presentation whose status has become completed or failed never has
\* status processing again, whatever create requests, worker runs,
\* redeliveries and edit requests follow.
C1_TerminalNeverProcessing ==
    \A id \in finalized : StatusOf(table, id) # "processing"

\* A presentation that failed in one run and was completed by the run of
\* the redelivered job.
C1_Witness ==
    \E id \in finalized :
        /\ statusWrites[id] = 2
        /\ StatusOf(table, id) = "completed"
        /\ ErrorMessageOf(table, id) # Undefined

\* C2 as stated: for every presentation the worker writes a terminal
\* status exactly once; no later run writes the status again.
C2_StatusWrittenOnce == \A id \in Ids : statusWrites[id] <= 1

\* C2: a worker run writes the status of its presentation at most once, and
\* every delivery of the job message starts a run that may write it again:
\* the status writes of a presentation are at most the deliveries of its job.
C2_OneStatusWritePerRun ==
    /\ \A w \in Workers : Len(worker[w].wrote) <= 1
    /\ \A id \in DOMAIN queue : statusWrites[id] <= queue[id].receives

\* The job was delivered twice and both runs wrote the status.
C2_Witness ==
    \E id \in DOMAIN queue : statusWrites[id] = 2 /\ queue[id].receives = 2

\* C3: when the worker has written completed, saveSlides has returned and
\* every slide of the generated list is stored at its index.
C3_CompletedMeansSlidesStored ==
    \A w \in Workers :
        (Running(w) /\ worker[w].wrote = <<"completed">>)
            => Stored(table, RunId(w), worker[w].slides)

\* The worker has written completed for a one-slide list whose slide is not
\* in the table: both batch writes left it unprocessed.
C3_Witness ==
    \E w \in Workers :
        /\ worker[w].pc = "done"
        /\ worker[w].wrote = <<"completed">>
        /\ Len(worker[w].slides) = 1
        /\ GetItem(table, SlideKey(RunId(w), 0)) = Null
        /\ StatusOf(table, RunId(w)) = "completed"

\* C4 as stated: a run that throws has set status failed with the message
\* of the caught exception and throws the exception it caught.
C4_FailedThenOriginalRethrown ==
    \A w \in Workers :
        worker[w].pc = "throwing" =>
            /\ worker[w].wrote = <<"failed">>
            /\ StatusOf(table, RunId(w)) = "failed"
            /\ ErrorMessageOf(table, RunId(w)) = worker[w].caught.message
            /\ worker[w].thrown = worker[w].caught

\* C4: an exception of generation, slide persistence or the completed
\* status write is caught once and the run never writes completed; when the
\* failed status write returns, it has set status failed with the message of
\* the caught exception, and that exception is thrown again; when the
\* failed status write throws, the table is left as it was and the
\* exception of the write is thrown.
C4_FailureBranch ==
    [][\A w \in Workers :
          LET wk == worker'[w]
          IN  /\ wk.pc \in {"markFailed", "notifyFailed", "throwing"} =>
                    /\ wk.caught # NoError
                    /\ wk.wrote \in {<<>>, <<"failed">>}
                    /\ (wk.pc = "throwing" /\ wk.wrote = <<"failed">>) =>
                          wk.thrown = wk.caught
                    /\ (wk.pc = "throwing" /\ wk.wrote = <<>>) =>
                          wk.thrown \in StoreErrors("failed")
              /\ (worker[w].pc = "markFailed" /\ wk.wrote = <<"failed">>) =>
                    /\ StatusOf(table', RunId(w)) = "failed"
                    /\ ErrorMessageOf(table', RunId(w)) = worker[w].caught.message
              /\ (worker[w].pc = "markFailed" /\ wk.pc = "throwing" /\ wk.wrote = <<>>) =>
                    table' = table]_vars

\* The completed status write threw; the run set status failed and throws
\* what it caught.
C4_Witness ==
    \E w \in Workers :
        /\ worker[w].pc = "throwing"
        /\ worker[w].wrote = <<"failed">>
        /\ worker[w].caught \in StoreErrors("completed")
        /\ worker[w].thrown = worker[w].caught
        /\ StatusOf(table, RunId(w)) = "failed"

\* The generation client threw in the run of w.
GenerationThrew(wk) == wk.caught \in GenerationErrors

\* C5 as stated: when the generation client throws, the status becomes
\* failed with the thrown message as errorMessage.
C5_GenerationFailureSetsFailed ==
    \A w \in Workers :
        (worker[w].pc = "throwing" /\ GenerationThrew(worker[w])) =>
            /\ StatusOf(table, RunId(w)) = "failed"
            /\ ErrorMessageOf(table, RunId(w)) = worker[w].caught.message

\* C5: no step of a run whose generation threw changes a slide item, and
\* when the failed status write of such a run returns it has set status
\* failed with the thrown message as errorMessage; when that write throws
\* the run writes no status.
C5_GenerationFailureFrame ==
    [][\A w \in Workers :
          (/\ worker'[w] # worker[w]
           /\ GenerationThrew(worker[w]) \/ GenerationThrew(worker'[w])) =>
              /\ SlideItems(table', RunId(w)) = SlideItems(table, RunId(w))
              /\ worker'[w].wrote \in {<<>>, <<"failed">>}
              /\ (worker[w].pc = "markFailed" /\ worker'[w].wrote = <<"failed">>) =>
                    /\ StatusOf(table', RunId(w)) = "failed"
                    /\ ErrorMessageOf(table', RunId(w)) = worker[w].caught.message]_vars

\* Generation threw in the run of the redelivered job, the slides of the
\* first run being stored.
C5_Witness ==
    \E w \in Workers :
        /\ worker[w].pc = "throwing"
        /\ GenerationThrew(worker[w])
        /\ worker[w].wrote = <<"failed">>
        /\ StatusOf(table, RunId(w)) = "failed"
        /\ SlideItems(table, RunId(w)) # {}

\* C6: a run whose generation, slide save and completed status write
\* succeeded has set status completed, goes on to return and does not
\* throw, whether or not the notification send fails; a notification step
\* changes neither the table nor what the run throws: on the failure path
\* the run throws the exception it caught.
C6_NotificationNeverChangesOutcome ==
    [][\A w \in Workers :
          LET wk == worker'[w]
          IN  /\ (worker[w].pc = "markCompleted" /\ wk.wrote = <<"completed">>) =>
                    StatusOf(table', RunId(w)) = "completed"
              /\ (wk.pc # "idle" /\ wk.wrote = <<"completed">>) =>
                    /\ wk.pc \in {"notifyCompleted", "done"}
                    /\ wk.caught = NoError
                    /\ wk.thrown = NoError
              /\ (worker[w].pc \in {"notifyCompleted", "notifyFailed"}
                  /\ wk # worker[w]) =>
                    /\ table' = table
                    /\ statusWrites' = statusWrites
              /\ (worker[w].pc = "notifyCompleted" /\ wk # worker[w] /\ wk.pc # "idle") =>
                    wk.pc = "done"
              /\ (worker[w].pc = "notifyFailed" /\ wk # worker[w] /\ wk.pc # "idle") =>
                    /\ wk.pc = "throwing"
                    /\ wk.thrown = worker[w].caught]_vars

\* The send of the completion notification failed and the run returned.
C6_Witness ==
    \E w \in Workers :
        /\ worker[w].pc = "done"
        /\ worker[w].notified = "failed"
        /\ worker[w].wrote = <<"completed">>
        /\ StatusOf(table, RunId(w)) = "completed"

\* The create handler has saved the metadata of id and has answered without
\* a job message of id on the queue.
Orphaned(id) ==
    /\ id < nextId
    /\ creating = Null \/ creating.presentationId # id
    /\ id \notin DOMAIN queue

\* C7: a presentation whose metadata was saved and whose job was not
\* enqueued (the send failed, or no queue URL is configured) keeps status
\* processing as long as it exists: nothing moves it to completed or failed.
C7_OrphanStaysProcessing ==
    \A id \in Ids :
        Orphaned(id) =>
            /\ id \notin finalized
            /\ \/ StatusOf(table, id) = "processing"
               \/ GetItem(table, MetadataKey(id)) = Null

\* The send failed with a queue URL configured; the owner has since renamed
\* the presentation and time has passed.
C7_Witness ==
    \E id \in Ids :
        /\ Orphaned(id)
        /\ queueUrl # ""
        /\ StatusOf(table, id) = "processing"
        /\ Attr(GetItem(table, MetadataKey(id)), "title") = "t2"
        /\ clock = MaxClock

\* The response of GET /presentations/{id}.
GetBody(tbl, id) == getPresentationHandler(tbl, id, 0).response.body
GetStatusCode(tbl, id) == getPresentationHandler(tbl, id, 0).response.statusCode

\* The job of id has not been delivered to the worker.
BeforeWorker(id) == id \in DOMAIN queue /\ queue[id].receives = 0

PresentationFields == {"id", "title", "description", "theme", "slides"}

C9_SaveThenGet ==
    (/\ call.op = "saveSlides"
     /\ call.prev.op = "savePresentationMetadata"
     /\ call.prev.id = call.id) =>
        LET presentation == getPresentation(table, call.id)
            saved == call.prev.arg
        IN  /\ presentation # Null
            /\ presentation.id = saved.id
            /\ presentation.title = saved.title
            /\ presentation.description = saved.description
            /\ presentation.theme = saved.theme
            /\ presentation.slides = call.arg

\* saveSlides(P.id, S) after savePresentationMetadata(P) has returned with a
\* slide of S missing from the table.
C9_Witness ==
    /\ call.op = "saveSlides"
    /\ call.prev.op = "savePresentationMetadata"
    /\ call.prev.id = call.id
    /\ Len(call.arg) = 2
    /\ getPresentation(table, call.id).slides = <<call.arg[2]>>

\* C10: for an id with metadata, whatever slides were stored before,
\* saveSlides(id, []) then getPresentation(id) yields an empty slide list
\* with the metadata present.
C10_SaveEmptyThenGet ==
    (/\ call.op = "saveSlides"
     /\ call.arg = <<>>
     /\ GetItem(table, MetadataKey(call.id)) # Null) =>
        /\ getPresentation(table, call.id) # Null
        /\ getPresentation(table, call.id).slides = <<>>

\* saveSlides(id, []) has returned and the slides stored before are still
\* what getPresentation returns.
C10_Witness ==
    /\ call.op = "saveSlides"
    /\ call.arg = <<>>
    /\ call.prev.op = "saveSlides"
    /\ call.prev.id = call.id
    /\ call.prev.arg # <<>>
    /\ getPresentation(table, call.id) # Null
    /\ getPresentation(table, call.id).slides = call.prev.arg

(***************************************************************************)
(* C11: saveSlides writes only the slide records at the indices of the new *)
(* list.                                                                   *)
(***************************************************************************)
\* The step is a repository call of op.
CallOf(op) == call'.op = op /\ call'.n = call.n + 1

\* The keys saveSlides(id, slides) sends put requests for.
WrittenKeys(id, slides) == {SlideKey(id, j) : j \in 0..(Len(slides) - 1)}

\* The item at key is the same before and after the step (absent on both
\* sides counts as the same).
Untouched(key) ==
    /\ (key \in DOMAIN table) = (key \in DOMAIN table')
    /\ key \in DOMAIN table => table'[key] = table[key]

\* C11: a call saveSlides(id, S) with |S| = N leaves every record other than
\* the slide records of id at indices 0..N-1 as it was: the slide records of
\* id at indices >= N, the metadata record of id, and every record of another
\* presentation; and it creates no record outside indices 0..N-1.
C11_SaveSlidesFrame ==
    [][CallOf("saveSlides") =>
          \A key \in (DOMAIN table \cup DOMAIN table') \ WrittenKeys(call'.id, call'.arg) :
              Untouched(key)]_vars

\* A saveSlides call of a list shorter than the stored one, on a presentation
\* with a metadata record, has written index 0 and left a record behind it.
C11_Witness ==
    /\ call.op = "saveSlides"
    /\ Len(call.arg) = 1
    /\ MetadataKey(call.id) \in DOMAIN table
    /\ SlideKey(call.id, 1) \in DOMAIN table
    /\ SlideKey(call.id, 0) \in DOMAIN table
    /\ table[SlideKey(call.id, 0)].slide = call.arg[1]
    /\ table[SlideKey(call.id, 1)].slide # call.arg[1]

(***************************************************************************)
(* C12: DELETE /presentations/{id}/slides/{i}.                             *)
(***************************************************************************)
\* The slides getPresentation reports for id, none without a presentation.
SlidesOf(tbl, id) ==
    LET presentation == getPresentation(tbl, id)
    IN  IF presentation = Null THEN <<>> ELSE presentation.slides

\* The request recorded in c passed authentication and the ownership check
\* against the store tbl.
PassedOwnership(tbl, enabled, c) ==
    /\ ~Unauthorized(enabled, c.arg.auth)
    /\ getPresentationMetadata(tbl, c.id) # Null
    /\ ~NotOwner(enabled, getPresentationMetadata(tbl, c.id),
                 userEmailOf(enabled, c.arg.auth))

\* C12: a delete-slide request that passes the ownership check, on a
\* presentation with N >= 2 slides and index i < N, leaves at every position
\* 0..N-2 the element of the original list with element i removed; on a
\* presentation with exactly one slide it is answered 400 and the store is
\* unchanged.
C12_DeleteSlideResaves ==
    [][(CallOf("DELETE /presentations/{id}/slides/{index}") /\ PassedOwnership(table, call'.arg.enabled, call')) =>
          LET slides == SlidesOf(table, call'.id)
              N == Len(slides)
              i == call'.arg.input.slideIndex
          IN  /\ (N >= 2 /\ i < N) =>
                    \A j \in 0..(N - 2) :
                        Attr(GetItem(table', SlideKey(call'.id, j)), "slide")
                            = spliceOut(slides, i)[j + 1]
              /\ N = 1 => /\ call'.arg.response.statusCode = 400
                          /\ table' = table]_vars

\* A two-slide list was saved and the request to delete its first slide was
\* answered 200: position 0 holds what was the second slide.
C12_Witness ==
    /\ call.op = "DELETE /presentations/{id}/slides/{index}"
    /\ call.arg.response.statusCode = 200
    /\ call.arg.input.slideIndex = 0
    /\ call.prev.op = "saveSlides"
    /\ call.prev.id = call.id
    /\ Len(call.prev.arg) = 2
    /\ call.prev.arg[1] # call.prev.arg[2]
    /\ Attr(GetItem(table, SlideKey(call.id, 0)), "slide") = call.prev.arg[2]

(***************************************************************************)
(* C13: createdAt is set by the first save and kept by every later write.  *)
(***************************************************************************)
\* An attribute of the metadata item of id, undefined when absent.
MetadataAttr(tbl, id, a) == Attr(GetItem(tbl, MetadataKey(id)), a)

\* C13: a savePresentationMetadata call that follows a call of
\* savePresentationMetadata with the same id leaves createdAt as the first
\* call set it and sets updatedAt to its own time; and no call of
\* updatePresentationStatus or updatePresentationMetadata changes the
\* createdAt of the record it writes.
C13_CreatedAtKept ==
    [][/\ (/\ CallOf("savePresentationMetadata")
           /\ call.op = "savePresentationMetadata"
           /\ call.id = call'.id) =>
              /\ MetadataAttr(table', call'.id, "createdAt")
                    = MetadataAttr(table, call'.id, "createdAt")
              /\ MetadataAttr(table', call'.id, "updatedAt") = clock
       /\ (CallOf("updatePresentationStatus") \/ CallOf("updatePresentationMetadata")) =>
              MetadataAttr(table', call'.id, "createdAt")
                  = MetadataAttr(table, call'.id, "createdAt")]_vars

\* Two saves of the same id, the second at a later time and with another
\* title: the record carries the time of the first save as createdAt and
\* the time of the second as updatedAt.
C13_Witness ==
    /\ call.op = "savePresentationMetadata"
    /\ call.prev.op = "savePresentationMetadata"
    /\ call.prev.id = call.id
    /\ call.prev.arg.title # call.arg.title
    /\ MetadataAttr(table, call.id, "title") = call.arg.title
    /\ MetadataAttr(table, call.id, "createdAt") = 1
    /\ MetadataAttr(table, call.id, "updatedAt") = 2
    /\ clock = 2

(***************************************************************************)
(* C14: updatedAt of a metadata record never decreases.                    *)
(***************************************************************************)
\* C14: every write of savePresentationMetadata, updatePresentationStatus
\* or updatePresentationMetadata stores an updatedAt at least as large as
\* the one it replaces, also when concurrent calls each take their
\* timestamp before their write lands.
C14_UpdatedAtMonotonic ==
    [][\A id \in PathIds :
          (MetadataKey(id) \in DOMAIN table /\ MetadataKey(id) \in DOMAIN table') =>
              MetadataAttr(table', id, "updatedAt") >= MetadataAttr(table, id, "updatedAt")]_vars

\* Two calls took their timestamps at different times and both writes have
\* landed, the later-stamped one last: updatedAt went up.
C14_Witness ==
    /\ call.n = 2
    /\ call.arg.now = 2
    /\ call.op = "updatePresentationMetadata"
    /\ call.prev.op = "updatePresentationStatus"
    /\ call.prev.arg.now = 1
    /\ MetadataAttr(table, call.id, "updatedAt") = 2

(***************************************************************************)
(* C15: the listing of one owner.                                          *)
(***************************************************************************)
\* The metadata records of the store whose userId is owner.
OwnedBy(tbl, owner) ==
    {metadataOf(tbl[k]) :
        k \in {k \in DOMAIN tbl : k.sk = createSK("METADATA", -1)
                                  /\ Attr(tbl[k], "userId") = owner}}

\* C15: getUserPresentations(owner) returns each metadata record whose
\* userId is owner once, returns no other record, and returns them with
\* createdAt descending (each record is at least as new as the next one).
C15_ListOfOwner ==
    \A owner \in Users \cup {AnonymousUser} :
        LET listed == getUserPresentations(table, owner)
        IN  /\ {listed[j] : j \in 1..Len(listed)} = OwnedBy(table, owner)
            /\ Len(listed) = Cardinality(OwnedBy(table, owner))
            /\ \A j \in 1..(Len(listed) - 1) :
                   listed[j].createdAt >= listed[j + 1].createdAt

\* One owner holds two presentations, the one with the larger id created
\* later: the listing puts it first, against the order of the index.
C15_Witness ==
    LET listed == getUserPresentations(table, "a@x.com")
    IN  /\ Len(listed) = 2
        /\ listed[1].id = 2
        /\ listed[1].createdAt = 2
        /\ listed[2].id = 1
        /\ listed[2].createdAt = 1

(***************************************************************************)
(* C16: deletePresentation, seen through the two reads.                    *)
(***************************************************************************)
\* The ids getUserPresentations(owner) lists.
ListedIds(tbl, owner) ==
    LET listed == getUserPresentations(tbl, owner)
    IN  {listed[j].id : j \in 1..Len(listed)}

\* C16: deletePresentation(id) on an id without records returns and leaves
\* the store as it was; on an id with records, once it has returned,
\* getPresentation(id) is null and no owner's listing contains id.
C16_DeletedIsGone ==
    [][CallOf("deletePresentation") =>
          /\ QueryPartition(table, createPK(call'.id)) = {} => table' = table
          /\ QueryPartition(table, createPK(call'.id)) # {} =>
                /\ getPresentation(table', call'.id) = Null
                /\ \A owner \in Users \cup {AnonymousUser} :
                       call'.id \notin ListedIds(table', owner)]_vars

\* A presentation was saved and then deleted with every delete request
\* processed: both reads no longer find it.
C16_Witness ==
    /\ call.op = "deletePresentation"
    /\ call.prev.op = "savePresentationMetadata"
    /\ call.prev.id = call.id
    /\ call.arg = {}
    /\ getPresentation(table, call.id) = Null
    /\ call.id \notin ListedIds(table, call.prev.arg.userId)

(***************************************************************************)
(* C17: a delete that reports success has removed the whole partition.     *)
(***************************************************************************)
\* C17: whenever DELETE /presentations/{id} answers 200 (deletePresentation
\* has returned), no record that the partition of id held when the request
\* started is still in the store.
C17_SuccessMeansRemoved ==
    [][(CallOf("DELETE /presentations/{id}") /\ call'.arg.response.statusCode = 200) =>
          QueryPartition(table, createPK(call'.id)) \cap DOMAIN table' = {}]_vars

\* A presentation with metadata and a slide was deleted by its owner with
\* every delete request processed: the answer is 200 and the partition is
\* empty.
C17_Witness ==
    /\ call.op = "DELETE /presentations/{id}"
    /\ call.arg.response.statusCode = 200
    /\ call.arg.input.unprocessed = {}
    /\ call.prev.op = "saveSlides"
    /\ call.prev.id = call.id
    /\ QueryPartition(table, createPK(call.id)) = {}

(***************************************************************************)
(* C18: the ownership check of the six owner-guarded handlers.             *)
(***************************************************************************)
GuardedRoutes == Routes \ {"GET /presentations/{id}", "GET /presentations"}

\* The step is a request on an owner-guarded route, with auth active, by a
\* verified caller who is not the owner of the stored presentation.
ByNonOwner ==
    /\ call'.op \in GuardedRoutes
    /\ call'.n = call.n + 1
    /\ call'.arg.enabled
    /\ call'.arg.auth \in Users
    /\ getPresentationMetadata(table, call'.id) # Null
    /\ Attr(getPresentationMetadata(table, call'.id), "userId") # call'.arg.auth

\* The request recorded in c passes the checks its handler makes on the
\* body before it reads the store.
WellFormed(c) ==
    CASE c.op = "PUT /presentations/{id}" -> c.arg.input.body # Null
      [] c.op \in {"PUT /presentations/{id}/slides/{index}",
                   "POST /presentations/{id}/refine"} ->
            Truthy(Attr(c.arg.input.body, "instruction"))
      [] c.op = "POST /presentations/{id}/slides" ->
            /\ Truthy(Attr(c.arg.input.body, "instruction"))
            /\ c.arg.input.body.position >= 0
      [] OTHER -> TRUE

\* C18 as stated: every request of a verified non-owner on an owner-guarded
\* route is answered 403, writes and deletes nothing and calls no generation.
C18_NonOwnerForbidden ==
    [][ByNonOwner =>
          /\ call'.arg.response.statusCode = 403
          /\ table' = table
          /\ ~call'.arg.generated]_vars

\* C18, amended: a request of a verified non-owner on an owner-guarded route
\* writes and deletes nothing and calls no generation; it is answered 403
\* when it passes the handler's checks of the body, and 400 by those checks
\* otherwise.
C18_NonOwnerRejected ==
    [][ByNonOwner =>
          /\ table' = table
          /\ ~call'.arg.generated
          /\ call'.arg.response.statusCode = IF WellFormed(call') THEN 403 ELSE 400]_vars

\* b@x.com asked for a slide of a presentation of a@x.com to be rewritten,
\* with an instruction and a generation that would have succeeded: 403,
\* and the slide is as it was saved.
C18_Witness ==
    /\ call.op = "PUT /presentations/{id}/slides/{index}"
    /\ call.arg.enabled
    /\ call.arg.auth = "b@x.com"
    /\ MetadataAttr(table, call.id, "userId") = "a@x.com"
    /\ Truthy(Attr(call.arg.input.body, "instruction"))
    /\ call.arg.input.generation.error = NoError
    /\ call.arg.input.generation.affectedSlides # <<>>
    /\ call.arg.input.slideIndex = 0
    /\ call.arg.response.statusCode = 403
    /\ ~call.arg.generated
    /\ SlideKey(call.id, 0) \in DOMAIN table
    /\ table[SlideKey(call.id, 0)].slide # "s3"

(***************************************************************************)
(* C19: the two authentication modes.                                      *)
(***************************************************************************)
\* The routes whose handler authenticates.
AuthenticatedRoutes == Routes \ {"GET /presentations/{id}"}

\* C19: when the client id is unset, a request is never answered 401 or 403
\* and the listing is the one of anonymous@dev.local; when the client id is
\* set, every request that is not answered 401 carries an identity that
\* requireAuth verified.
C19_AuthModes ==
    [][(call'.op \in AuthenticatedRoutes /\ call'.n = call.n + 1) =>
          /\ ~authEnabled =>
                /\ call'.arg.response.statusCode \notin {401, 403}
                /\ call'.op = "GET /presentations" =>
                      call'.arg.response.body.presentations
                          = getUserPresentations(table, AnonymousUser)
          /\ authEnabled =>
                (call'.arg.response.statusCode # 401 => call'.arg.auth \in Users)]_vars

\* With the client id unset, a request without any credential deleted a
\* presentation that belongs to a@x.com.
C19_Witness ==
    /\ ~authEnabled
    /\ call.op = "DELETE /presentations/{id}"
    /\ call.arg.auth = Undefined
    /\ call.arg.response.statusCode = 200
    /\ call.prev.op = "savePresentationMetadata"
    /\ call.prev.id = call.id
    /\ call.prev.arg.userId = "a@x.com"
    /\ QueryPartition(table, createPK(call.id)) = {}

(***************************************************************************)
(* C20: reading a presentation by id is open to everybody.                 *)
(***************************************************************************)
\* C20: the response of GET /presentations/{id} is the one any other caller
\* (or a request without credential), in either authentication mode, gets
\* for the same id on the same store; and the request leaves the store as it
\* was.
C20_GetIsPublic ==
    [][CallOf("GET /presentations/{id}") =>
          /\ table' = table
          /\ \A enabled \in BOOLEAN : \A caller \in Callers :
                getPresentationRequest(table, enabled, caller, call'.id, 0).response
                    = call'.arg.response]_vars

\* With auth active, a request without credential read a presentation of
\* a@x.com with its slides.
C20_Witness ==
    /\ call.op = "GET /presentations/{id}"
    /\ call.arg.enabled
    /\ call.arg.auth = Undefined
    /\ MetadataAttr(table, call.id, "userId") = "a@x.com"
    /\ call.arg.response.statusCode = 200
    /\ Len(call.arg.response.body.slides) >= 1

(***************************************************************************)
(* C21: PUT /presentations/{id}/slides/{index} past the last slide.        *)
(***************************************************************************)
\* The step answers an update-slide request that carries an instruction and
\* passes authentication and the ownership check.
UpdateSlideChecked ==
    /\ CallOf("PUT /presentations/{id}/slides/{index}")
    /\ WellFormed(call')
    /\ PassedOwnership(table, call'.arg.enabled, call')

\* C21: an update-slide request that reaches the index check with an index
\* >= the number N of slides getPresentation reports is answered 400 with
\* the message "Slide index out of range (max: N-1)", calls no generation
\* and leaves the store as it was.
C21_OutOfRangeRejected ==
    [][(UpdateSlideChecked
          /\ call'.arg.input.slideIndex >= Len(SlidesOf(table, call'.id))) =>
          /\ call'.arg.response.statusCode = 400
          /\ call'.arg.response.body
                = <<"Slide index out of range (max: ",
                    Len(SlidesOf(table, call'.id)) - 1, ")">>
          /\ ~call'.arg.generated
          /\ table' = table]_vars

\* The owner asked for slide 1 of a one-slide presentation to be rewritten,
\* with a generation that would have returned slides: 400 naming max 0, and
\* the one slide is stored as it was saved.
C21_Witness ==
    /\ call.op = "PUT /presentations/{id}/slides/{index}"
    /\ WellFormed(call)
    /\ PassedOwnership(table, call.arg.enabled, call)
    /\ call.arg.enabled
    /\ Len(SlidesOf(table, call.id)) = 1
    /\ call.arg.input.slideIndex = 1
    /\ call.arg.input.generation.error = NoError
    /\ call.arg.input.generation.affectedSlides # <<>>
    /\ call.arg.response.statusCode = 400
    /\ call.arg.response.body[2] = 0
    /\ ~call.arg.generated
    /\ call.prev.op = "saveSlides"
    /\ table[SlideKey(call.id, 0)].slide = call.prev.arg[1]

(***************************************************************************)
(* C22: the allow-list gates every identity requireAuth returns.           *)
(***************************************************************************)
\* The configured emails.
AllowList == {trim(userWhitelist[i]) : i \in DOMAIN userWhitelist}

\* The allow-list is empty, or email is one of its members up to case.
Permitted(email) ==
    \/ AllowList = {}
    \/ \E member \in AllowList : toLowerCase(member) = toLowerCase(email)

\* The step is a requireAuth call that returned an identity.
Authenticated ==
    /\ CallOf("requireAuth")
    /\ call'.arg.result.error = ""

\* C22: every identity requireAuth returns, from the authorizer context or
\* from the Authorization header, has an email the allow-list permits.
C22_AllowListGates ==
    [][Authenticated => Permitted(call'.arg.result.user.email)]_vars

\* The same for the events without authorizer context, whose identity comes
\* from the Authorization header.
AllowListGatesHeader ==
    [][(Authenticated /\ call'.arg.event.lambda = <<>> /\ call'.arg.event.claims = <<>>)
          => Permitted(call'.arg.result.user.email)]_vars

\* With only a@x on the allow-list, requireAuth returned b@x, taken from the
\* authorizer context of an event without Authorization header.
C22_Witness ==
    /\ call.op = "requireAuth"
    /\ userWhitelist = <<Alice>>
    /\ call.arg.event.lambda = Bob
    /\ call.arg.event.authorization = <<>>
    /\ call.arg.event.Authorization = <<>>
    /\ call.arg.result.error = ""
    /\ call.arg.result.user.email = Bob

\* With a@x on the allow-list, the bearer token of A@X was accepted and the
\* one of b@x was turned away.
HeaderWitness ==
    /\ call.op = "requireAuth"
    /\ userWhitelist = <<Alice>>
    /\ call.arg.event.lambda = <<>>
    /\ call.arg.event.claims = <<>>
    /\ call.arg.result.error = ""
    /\ call.arg.result.user.email = AliceUpper

(***************************************************************************)
(* C23: a job message processed again after its run completed.             *)
(***************************************************************************)
\* The run of w is on a job whose presentation an earlier run of the same
\* message marked completed, and has not written a status itself.
Duplicate(w) ==
    /\ worker[w].pc \in {"processMessage", "saveSlides", "retry", "markCompleted"}
    /\ StatusOf(table, RunId(w)) = "completed"

\* The slide indices the batch write about to be made by w sends puts for:
\* the batch at its offset, or what the batch left unprocessed.
AttemptIndices(w) ==
    IF worker[w].pc = "retry" THEN worker[w].unprocessed
    ELSE BatchIndices(batchAt(WorkerRequests(w), worker[w].i))

\* C23: in a run on a job that was already completed, when a batch of
\* saveSlides is done with (its write, or its retry, has returned), the
\* slide records of the batch hold the slides this run generated, whatever
\* they held before; and the status write of the run sets completed.
C23_DuplicateOverwrites ==
    [][\A w \in Workers :
          Duplicate(w) =>
              /\ (worker[w].pc \in {"saveSlides", "retry"}
                    /\ worker'[w] # worker[w]
                    /\ worker'[w].pc \in {"saveSlides", "markCompleted"}) =>
                    \A j \in AttemptIndices(w) :
                        /\ SlideKey(RunId(w), j) \in DOMAIN table'
                        /\ table'[SlideKey(RunId(w), j)].slide = worker[w].slides[j + 1]
              /\ (worker[w].pc = "markCompleted"
                    /\ Len(worker'[w].wrote) = Len(worker[w].wrote) + 1) =>
                    StatusOf(table', RunId(w)) = "completed"]_vars

\* What the run on an already completed job does: it calls the generation
\* (it never goes from its entry to its end), each batch write of its
\* saveSlides leaves at every index of the generated list either the
\* generated slide or the record as it was (the put was left unprocessed),
\* whatever was stored there, and its status write sets completed.
DuplicateRunsAsFirst ==
    [][\A w \in Workers :
          (Duplicate(w) /\ worker'[w] # worker[w]) =>
              /\ worker[w].pc = "processMessage" =>
                    worker'[w].pc \in {"saveSlides", "markCompleted", "markFailed", "idle"}
              /\ worker[w].pc \in {"saveSlides", "retry"} =>
                    \A j \in 1..Len(worker[w].slides) :
                        \/ Untouched(SlideKey(RunId(w), j - 1))
                        \/ /\ SlideKey(RunId(w), j - 1) \in DOMAIN table'
                           /\ table'[SlideKey(RunId(w), j - 1)].slide = worker[w].slides[j]
              /\ (worker[w].pc = "markCompleted"
                    /\ Len(worker'[w].wrote) = Len(worker[w].wrote) + 1) =>
                    StatusOf(table', RunId(w)) = "completed"]_vars

\* The second delivery of a job is in hand and its generation has returned
\* a list; the first run completed at time 1, and the record of slide 0 was
\* written at time 2 by an edit request, after that run.
C23_Witness ==
    \E w \in Workers :
        /\ worker[w].pc = "saveSlides"
        /\ worker[w].i = 0
        /\ queue[RunId(w)].receives = 2
        /\ statusWrites[RunId(w)] = 1
        /\ StatusOf(table, RunId(w)) = "completed"
        /\ table[MetadataKey(RunId(w))].updatedAt = 1
        /\ SlideKey(RunId(w), 0) \in DOMAIN table
        /\ table[SlideKey(RunId(w), 0)].updatedAt = 2
        /\ table[SlideKey(RunId(w), 0)].slide # worker[w].slides[1]

(***************************************************************************)
(* C24: what updatePresentationStatus changes.                             *)
(***************************************************************************)
\* The attribute a is the same in the items before and after (absent in
\* both counts as the same).
SameAttr(before, after, a) ==
    /\ (a \in DOMAIN before) = (a \in DOMAIN after)
    /\ a \in DOMAIN before => after[a] = before[a]

\* The step changes the metadata record of id in the attributes changed at
\* most, and no other record.  Without a record before the step, the record
\* after it holds its key and no attribute outside changed.
OnlyMetadataAttrs(id, changed) ==
    /\ \A key \in (DOMAIN table \cup DOMAIN table') \ {MetadataKey(id)} : Untouched(key)
    /\ MetadataKey(id) \in DOMAIN table'
    /\ table'[MetadataKey(id)].pk = MetadataKey(id).pk
    /\ table'[MetadataKey(id)].sk = MetadataKey(id).sk
    /\ \A a \in (DOMAIN GetItem(table, MetadataKey(id))
                    \cup DOMAIN table'[MetadataKey(id)]) \ (changed \cup {"pk", "sk"}) :
          SameAttr(GetItem(table, MetadataKey(id)), table'[MetadataKey(id)], a)

\* C24: updatePresentationStatus(id, status, errorMessage) sets status and
\* updatedAt, sets errorMessage when a (non-empty) one is passed and leaves
\* the stored errorMessage as it is otherwise; every other attribute of the
\* metadata record (title, description, theme, userId, createdAt, keys) and
\* every other record, the slides among them, is unchanged.
C24_StatusUpdateFrame ==
    [][CallOf("updatePresentationStatus") =>
          /\ OnlyMetadataAttrs(call'.id,
                 IF Truthy(call'.arg.errorMessage)
                 THEN {"status", "updatedAt", "errorMessage"}
                 ELSE {"status", "updatedAt"})
          /\ table'[MetadataKey(call'.id)].status = call'.arg.status
          /\ table'[MetadataKey(call'.id)].updatedAt = clock
          /\ Truthy(call'.arg.errorMessage) =>
                table'[MetadataKey(call'.id)].errorMessage = call'.arg.errorMessage]_vars

\* A presentation marked failed with a message was then marked completed
\* without one: it is completed, keeps the message, and its title is as
\* saved.
C24_Witness ==
    /\ call.op = "updatePresentationStatus"
    /\ call.arg.status = "completed"
    /\ call.arg.errorMessage = Undefined
    /\ call.prev.op = "updatePresentationStatus"
    /\ call.prev.id = call.id
    /\ call.prev.arg.status = "failed"
    /\ call.prev.arg.errorMessage = "boom"
    /\ StatusOf(table, call.id) = "completed"
    /\ ErrorMessageOf(table, call.id) = "boom"
    /\ MetadataAttr(table, call.id, "title") = "t1"
    /\ MetadataAttr(table, call.id, "userId") = "a@x.com"

(***************************************************************************)
(* C25: what updatePresentationMetadata changes.                           *)
(***************************************************************************)
\* The fields of updates that are provided.
Provided(updates) == {a \in DOMAIN updates : updates[a] # Undefined}

\* C25: updatePresentationMetadata(id, updates) sets updatedAt and each of
\* title, description and theme that is provided (an empty string counts as
\* provided); a field that is not provided, every other attribute of the
\* metadata record (status, userId, createdAt, errorMessage, keys) and every
\* other record, the slides among them, is unchanged.
C25_MetadataUpdateFrame ==
    [][CallOf("updatePresentationMetadata") =>
          /\ OnlyMetadataAttrs(call'.id, {"updatedAt"} \cup Provided(call'.arg))
          /\ table'[MetadataKey(call'.id)].updatedAt = clock
          /\ \A a \in Provided(call'.arg) :
                table'[MetadataKey(call'.id)][a] = call'.arg[a]]_vars

\* Only the theme of a saved presentation was updated, at a later time: the
\* theme is the new one, and title, description, status and createdAt are
\* as saved.
C25_Witness ==
    /\ call.op = "updatePresentationMetadata"
    /\ Provided(call.arg) = {"theme"}
    /\ call.prev.op = "savePresentationMetadata"
    /\ call.prev.id = call.id
    /\ MetadataAttr(table, call.id, "theme") = "dark"
    /\ MetadataAttr(table, call.id, "title") = call.prev.arg.title
    /\ MetadataAttr(table, call.id, "description") = "d1"
    /\ MetadataAttr(table, call.id, "status") = "processing"
    /\ MetadataAttr(table, call.id, "createdAt") = 1
    /\ MetadataAttr(table, call.id, "updatedAt") = 2

(***************************************************************************)
(* C26: the create handler writes the metadata, then enqueues the job.     *)
(***************************************************************************)
\* C26: a job message enters the queue only as the job of the create
\* request in flight, whose metadata write has returned; a create request
\* gets a job to enqueue only in the step that writes its metadata record
\* with status processing, while no message of that presentation is in the
\* queue: a request whose metadata write throws has no job and enqueues
\* nothing.
C26_MetadataBeforeJob ==
    [][/\ \A id \in DOMAIN queue' \ DOMAIN queue :
             /\ creating # Null
             /\ creating.presentationId = id
       /\ (creating' # Null /\ creating' # creating) =>
             /\ MetadataKey(creating'.presentationId) \notin DOMAIN table
             /\ MetadataKey(creating'.presentationId) \in DOMAIN table'
             /\ table'[MetadataKey(creating'.presentationId)].status = "processing"
             /\ creating'.presentationId \notin DOMAIN queue']_vars

\* The job of a presentation is in the queue, not yet received, and the
\* metadata record written before it has status processing.
C26_Witness ==
    \E id \in DOMAIN queue :
        /\ queue[id].receives = 0
        /\ creating = Null
        /\ StatusOf(table, id) = "processing"
        /\ MetadataAttr(table, id, "createdAt") = 1
        /\ queue[id].body.title = MetadataAttr(table, id, "title")

(***************************************************************************)
(* C27: the batches of saveSlides.                                         *)
(***************************************************************************)
\* The first attempts among the commands sent by the saveSlides call p.
FirstAttempts(p) == SelectSeq(p.log, LAMBDA e : e.attempt = "first")

\* C27: every command of saveSlides(id, S) holds between 1 and 25 records;
\* the k-th first-attempt batch holds exactly the indices 25(k-1)..25k-1
\* below N, so that the batches are sent in ascending order and, once
\* saveSlides has returned, every index 0..N-1 is in exactly one of them;
\* a retry is sent directly after the batch whose records it holds, so the
\* next batch is sent only after the previous batch and its retry returned.
C27_BatchesInOrder ==
    pending[1] # Null =>
        LET p == pending[1]
            n == Len(p.arg)
            firsts == FirstAttempts(p)
        IN  /\ \A k \in DOMAIN p.log :
                  /\ Cardinality(p.log[k].indices) \in 1..25
                  /\ p.log[k].attempt = "retry" =>
                        /\ k > 1
                        /\ p.log[k - 1].attempt = "first"
                        /\ p.log[k].indices \subseteq p.log[k - 1].indices
            /\ \A k \in DOMAIN firsts :
                  firsts[k].indices
                      = {j \in 0..(n - 1) : 25 * (k - 1) <= j /\ j < 25 * k}
            /\ p.pc = "retry" => p.log[Len(p.log)].attempt = "first"
            /\ p.pc = "returned" =>
                  UNION {firsts[k].indices : k \in DOMAIN firsts} = 0..(n - 1)

\* A list of 51 slides was saved with three batches, of 25, 25 and 1
\* records, and a retry between the first and the second.
C27_Witness ==
    /\ pending[1] # Null
    /\ pending[1].pc = "returned"
    /\ Len(pending[1].arg) = 51
    /\ Len(pending[1].log) = 4
    /\ pending[1].log[2].attempt = "retry"
    /\ pending[1].log[3].indices = 25..49
    /\ pending[1].log[4].indices = {50}
    /\ \A j \in 0..50 : SlideKey(pending[1].id, j) \in DOMAIN table

(***************************************************************************)
(* C28: the one retry of saveSlides.                                       *)
(***************************************************************************)
\* C28: the records an attempt leaves unprocessed are sent again in one
\* retry, which is never followed by another retry of that batch; whatever
\* the retry leaves unprocessed, saveSlides goes on to the next batch or
\* returns, and throws only when a command throws.  When saveSlides has
\* returned, the slides of the list that are not stored are exactly those a
\* retry left unprocessed.
C28_RetriedOnce ==
    /\ [](pending[1] # Null =>
            LET p == pending[1]
            IN  /\ p.pc = "retry" =>
                      /\ p.unprocessed # {}
                      /\ p.log[Len(p.log)].attempt = "first"
                /\ p.pc = "threw" => p.error \in StoreErrors("saveSlides")
                /\ p.pc = "returned" =>
                      \A j \in 0..(Len(p.arg) - 1) :
                          (j \in p.lost) = (SlideKey(p.id, j) \notin DOMAIN table))
    /\ [][(pending[1] # Null /\ pending[1].pc = "retry") =>
             /\ pending'[1].log
                    = Append(pending[1].log, Sent("retry", pending[1].unprocessed))
             /\ pending'[1].pc \in {"send", "returned", "threw"}
             /\ pending'[1].error = NoError =>
                    pending'[1].pc \in {"send", "returned"}]_vars

\* saveSlides of a one-slide list has returned normally after its batch and
\* its retry both left the record unprocessed: the slide is not stored.
C28_Witness ==
    /\ pending[1] # Null
    /\ pending[1].pc = "returned"
    /\ pending[1].error = NoError
    /\ Len(pending[1].arg) = 1
    /\ pending[1].log = <<Sent("first", {0}), Sent("retry", {0})>>
    /\ pending[1].lost = {0}
    /\ SlideKey(pending[1].id, 0) \notin DOMAIN table

(***************************************************************************)
(* C29: two concurrent savePresentationMetadata calls.                     *)
(***************************************************************************)
\* The step is the write of the savePresentationMetadata call of caller c,
\* which had read no record, reaching the table.
LandsUnread(c) ==
    /\ pending[c] # Null
    /\ pending[c].op = "savePresentationMetadata"
    /\ pending[c].pc = "write"
    /\ pending[c].existing = Null
    /\ pending'[c] = Null

\* C29: when the write of a savePresentationMetadata call that read 'no
\* existing record' lands, the record carries the time of that call as
\* createdAt, whatever record, with whatever createdAt, another call has
\* written in the meantime: the write that lands last decides createdAt.
C29_LastWriteSetsCreatedAt ==
    [][\A c \in Clients :
          LandsUnread(c) =>
              MetadataAttr(table', pending[c].id, "createdAt") = pending[c].now]_vars

\* Two calls for the same id took the times 1 and 2 and both read no
\* record; the write of the second landed first and stored createdAt 2,
\* then the write of the first landed and replaced it by 1.
C29_Witness ==
    /\ call.n = 2
    /\ call.op = "savePresentationMetadata"
    /\ call.prev.op = "savePresentationMetadata"
    /\ call.prev.id = call.id
    /\ call.prev.arg.now = 2
    /\ call.arg.now = 1
    /\ MetadataAttr(table, call.id, "createdAt") = 1
    /\ MetadataAttr(table, call.id, "updatedAt") = 1

(***************************************************************************)
(* C30: two concurrent edit requests.                                      *)
(***************************************************************************)
\* The callers with a put for index j of id that has landed.
Writers(id, j) ==
    {c \in Clients : /\ pending[c] # Null
                     /\ pending[c].id = id
                     /\ j \in DOMAIN pending[c].landedAt
                     /\ pending[c].landedAt[j] > 0}

\* The caller whose put for index j of id landed last.
LastWriter(id, j) ==
    CHOOSE c \in Writers(id, j) :
        \A d \in Writers(id, j) : pending[d].landedAt[j] <= pending[c].landedAt[j]

\* C30: every slide record holds the slide of the request whose put for
\* that index landed last, and the slide it held before the requests when
\* no put for it has landed.
C30_LastPutWins ==
    \A id \in PathIds : \A j \in 0..(MaxSlides - 1) :
        SlideKey(id, j) \in DOMAIN StoredPresentation =>
        /\ SlideKey(id, j) \in DOMAIN table
        /\ table[SlideKey(id, j)].slide
              = IF Writers(id, j) = {} THEN StoredPresentation[SlideKey(id, j)].slide
                ELSE pending[LastWriter(id, j)].arg[j + 1]

\* Both requests have been answered, every put of both has landed, and the
\* stored list is neither the list of the first nor the list of the second:
\* slide 0 is of the first request and slide 1 of the second.
C30_Witness ==
    /\ \A c \in Clients :
          /\ pending[c] # Null
          /\ pending[c].pc = "done"
          /\ \A j \in DOMAIN pending[c].landedAt : pending[c].landedAt[j] > 0
    /\ SlidesOf(table, 1) # pending[1].arg
    /\ SlidesOf(table, 1) # pending[2].arg
    /\ SlidesOf(table, 1)[1] = "s3"
    /\ SlidesOf(table, 1)[2] = "s4"

(***************************************************************************)
(* C31: what getPresentation returns after a successful delete of a slide. *)
(***************************************************************************)
\* The step is a delete-slide request answered 200.
SlideDeleted ==
    /\ CallOf("DELETE /presentations/{id}/slides/{index}")
    /\ call'.arg.response.statusCode = 200

\* C31: after a delete-slide request answered 200 on a presentation that
\* getPresentation reports with N >= 2 slides, getPresentation returns
\* exactly N-1 slides, the original list with element i removed.
C31_DeleteSlideShortens ==
    [][(SlideDeleted /\ Len(SlidesOf(table, call'.id)) >= 2) =>
          SlidesOf(table', call'.id)
              = spliceOut(SlidesOf(table, call'.id), call'.arg.input.slideIndex)]_vars

\* What the handler leaves when every put is processed: the N-1 re-saved
\* slides followed by the record at index N-1, which nothing deletes.
DeleteSlideKeepsLastRecord ==
    [][(SlideDeleted /\ call'.arg.input.lost = {}) =>
          LET slides == SlidesOf(table, call'.id)
          IN  SlidesOf(table', call'.id)
                  = spliceOut(slides, call'.arg.input.slideIndex)
                        \o <<slides[Len(slides)]>>]_vars

\* A two-slide list was saved, the request to delete its first slide was
\* answered 200 with every put processed, and getPresentation still returns
\* two slides: the second slide twice.
C31_Witness ==
    /\ call.op = "DELETE /presentations/{id}/slides/{index}"
    /\ call.arg.response.statusCode = 200
    /\ call.arg.input.slideIndex = 0
    /\ call.arg.input.lost = {}
    /\ call.prev.op = "saveSlides"
    /\ call.prev.id = call.id
    /\ call.prev.arg = <<"s1", "s2">>
    /\ SlidesOf(table, call.id) = <<"s2", "s2">>

(***************************************************************************)
(* C32: a deleted presentation stays deleted.                              *)
(***************************************************************************)
\* The records under the partition of presentation id.
PartitionOf(tbl, id) == QueryPartition(tbl, createPK(id))

\* C32: once deletePresentation(id) has returned, the store holds no record
\* under the partition of id, in that state and in every later one, whatever
\* jobs and edit requests for id were under way.
C32_DeletedStaysGone ==
    call.op = "deletePresentation" => PartitionOf(table, call.id) = {}

\* The same with every delete request of the call processed: a partition
\* the call emptied is empty from then on.
ProcessedDeleteStaysGone ==
    [][(call.op = "deletePresentation" /\ call.arg = {}
            /\ PartitionOf(table, call.id) = {})
          => PartitionOf(table', call.id) = {}]_vars

\* deletePresentation returned with every delete request processed while a
\* job for the id was running; the run has ended, and the partition holds
\* slide records and a metadata record of status completed without owner.
C32_Witness ==
    /\ call.op = "deletePresentation"
    /\ call.arg = {}
    /\ pending[1] = Null
    /\ \A w \in Workers : ~Running(w)
    /\ QuerySlides(table, createPK(call.id)) # {}
    /\ MetadataKey(call.id) \in DOMAIN table
    /\ table[MetadataKey(call.id)].status = "completed"
    /\ "userId" \notin DOMAIN table[MetadataKey(call.id)]

\* deletePresentation returned with every delete request processed between
\* the checks and the saveSlides of an add-slide request, no job having
\* run: the partition holds slide records and no metadata record.
EditAfterDeleteWitness ==
    /\ call.op = "deletePresentation"
    /\ call.arg = {}
    /\ pending[1] # Null
    /\ pending[1].pc = "done"
    /\ pending[1].id = call.id
    /\ \A id \in DOMAIN queue : queue[id].receives = 0
    /\ QuerySlides(table, createPK(call.id)) # {}
    /\ MetadataKey(call.id) \notin DOMAIN table

(***************************************************************************)
(* C33: the shape of the metadata records.                                 *)
(***************************************************************************)
\* The keys of the metadata records in the store.
MetadataKeys(tbl) == {k \in DOMAIN tbl : k.sk = createSK("METADATA", -1)}

\* The item carries the fields of a metadata record and the keys of the
\* owner index.
CompleteMetadata(item) ==
    /\ {"id", "title", "userId", "status", "createdAt", "gsi1pk", "gsi1sk"} \subseteq DOMAIN item
    /\ item.pk = createPK(item.id)
    /\ item.gsi1pk = createGSI1PK(item.userId)
    /\ item.gsi1sk = createGSI1SK(item.id)

\* C33: every metadata record in the store carries id, title, userId,
\* status, createdAt and the owner index keys gsi1pk = USER#userId and
\* gsi1sk = PRESENTATION#id.
C33_MetadataComplete ==
    \A k \in MetadataKeys(table) : CompleteMetadata(table[k])

\* The record savePresentationMetadata leaves is complete.
SavedMetadataComplete ==
    [][CallOf("savePresentationMetadata") =>
          CompleteMetadata(table'[MetadataKey(call'.id)])]_vars

\* updatePresentationStatus and updatePresentationMetadata, called on their
\* own, bring no metadata record into existence.
UpdatesCreateNoRecord ==
    [][(CallOf("updatePresentationStatus") \/ CallOf("updatePresentationMetadata")) =>
          MetadataKeys(table') \subseteq MetadataKeys(table)]_vars

\* The run of a job whose presentation was deleted has marked it completed:
\* the metadata record holds its key, status and updatedAt and nothing else.
C33_Witness ==
    /\ \A w \in Workers : ~Running(w)
    /\ MetadataKey(1) \in DOMAIN table
    /\ DOMAIN table[MetadataKey(1)] = {"pk", "sk", "status", "updatedAt"}
    /\ table[MetadataKey(1)].status = "completed"

(***************************************************************************)
(* C34: a request answered 400, 401, 403 or 404 has had no effect.         *)
(***************************************************************************)
\* The status codes of a rejected request.
Rejections == {400, 401, 403, 404}

\* What POST /presentations does on the store as it is, for every caller
\* and body: answered with a rejection, it has written nothing and has no
\* job to enqueue.
CreateRejectedNoEffect ==
    \A enabled \in AuthModes : \A auth \in AuthsOf(enabled) : \A body \in CreateBodies :
        LET r == createPresentationSave(table, enabled, auth, body, nextId, clock, 0)
        IN  (r.response # Null /\ r.response.statusCode \in Rejections) =>
                r.table = table /\ r.job = Null

\* C34: a handler that answers 400, 401, 403 or 404 has made no store
\* write, no store delete, no enqueue and no generation call during the
\* request.
C34_RejectedNoEffect ==
    /\ []CreateRejectedNoEffect
    /\ [][(\E route \in Routes : CallOf(route)) =>
             (call'.arg.response.statusCode \in Rejections =>
                 /\ table' = table
                 /\ queue' = queue
                 /\ ~call'.arg.generated)]_vars

\* A well-formed request of a caller who does not own the presentation, on
\* a route that edits its slides, was answered 403, the presentation having
\* slides.
C34_Witness ==
    /\ call.op \in {"POST /presentations/{id}/slides", "DELETE /presentations/{id}/slides/{index}",
                    "PUT /presentations/{id}/slides/{index}", "POST /presentations/{id}/refine"}
    /\ call.arg.response.statusCode = 403
    /\ ~call.arg.generated
    /\ QuerySlides(table, createPK(call.id)) # {}

(***************************************************************************)
(* C35: POST /presentations/{id}/slides.                                   *)
(***************************************************************************)
\* The step is an add-slide request with an instruction and a position >= 0
\* that passes authentication and the ownership check and whose generation
\* call, if made, returns.
SlideAdded ==
    /\ CallOf("POST /presentations/{id}/slides")
    /\ call'.arg.input.body # Null
    /\ Truthy(Attr(call'.arg.input.body, "instruction"))
    /\ call'.arg.input.body.position >= 0
    /\ call'.arg.input.error = NoError
    /\ PassedOwnership(table, call'.arg.enabled, call')

\* What C35 requires of the step, for a presentation read with the list
\* slides: position <= N stores the list with the new slide at position and
\* getPresentation returns it; position > N is answered 400 with the store
\* unchanged.
AddSlideStores(slides) ==
    LET position == call'.arg.input.body.position
    IN  /\ position <= Len(slides) =>
              /\ call'.arg.response.statusCode = 200
              /\ SlidesOf(table', call'.id)
                    = spliceIn(slides, position, call'.arg.response.body.slide)
              /\ Len(SlidesOf(table', call'.id)) = Len(slides) + 1
        /\ position > Len(slides) =>
              /\ call'.arg.response.statusCode = 400
              /\ table' = table

\* C35: an add-slide request with 0 <= position <= N stores the N+1 slides
\* with the new slide at index position, the slides before it unchanged and
\* the slides from position on shifted up by one, and getPresentation
\* returns that list; position > N is answered 400 and stores nothing.
C35_AddSlideInserts ==
    [][SlideAdded => AddSlideStores(SlidesOf(table, call'.id))]_vars

\* The same when every put of saveSlides is processed.
AddSlideInsertsWhenProcessed ==
    [][(SlideAdded /\ call'.arg.input.lost = {})
          => AddSlideStores(SlidesOf(table, call'.id))]_vars

\* A slide was added at position 0 of a stored one-slide list and answered
\* 200, the put of index 1 left unprocessed: getPresentation returns the new
\* slide alone.
C35_Witness ==
    /\ call.op = "POST /presentations/{id}/slides"
    /\ call.arg.response.statusCode = 200
    /\ call.arg.input.body.position = 0
    /\ call.arg.input.lost = {1}
    /\ call.prev.op = "saveSlides"
    /\ call.prev.id = call.id
    /\ Len(call.prev.arg) = 1
    /\ SlidesOf(table, call.id) = <<"s3">>

\* A slide was added at position 1 of a stored two-slide list with every
\* put processed: getPresentation returns the three slides.
AddSlideWitness ==
    /\ call.op = "POST /presentations/{id}/slides"
    /\ call.arg.response.statusCode = 200
    /\ call.arg.input.body.position = 1
    /\ call.arg.input.lost = {}
    /\ call.prev.op = "saveSlides"
    /\ call.prev.arg = <<"s1", "s2">>
    /\ SlidesOf(table, call.id) = <<"s1", "s3", "s2">>

(***************************************************************************)
(* C36: a slide update or a refine keeps the number of slides.             *)
(***************************************************************************)
\* The step is an update-slide or a refine request answered 200.
SlidesEdited ==
    /\ \/ CallOf("PUT /presentations/{id}/slides/{index}")
       \/ CallOf("POST /presentations/{id}/refine")
    /\ call'.arg.response.statusCode = 200

\* The slide indices named in affectedSlides.
Named(affectedSlides) == {affectedSlides[k].slideIndex : k \in DOMAIN affectedSlides}

\* What the handler hands to saveSlides: the list has the length of the
\* list read, differs from it only at indices named in affectedSlides and
\* within 0..N-1, an affected entry with an index outside 0..N-1 changes
\* nothing, and every processed put stores its element.
ResavedListKeepsLength ==
    [][SlidesEdited =>
          LET read == SlidesOf(table, call'.id)
              affectedSlides == call'.arg.input.generation.affectedSlides
              saved == applyAffected(read, affectedSlides)
              inRange == SelectSeq(affectedSlides,
                             LAMBDA a : a.slideIndex >= 0 /\ a.slideIndex < Len(read))
          IN  /\ Len(saved) = Len(read)
              /\ \A j \in 1..Len(read) :
                    saved[j] # read[j] => (j - 1) \in Named(affectedSlides)
              /\ saved = applyAffected(read, inRange)
              /\ \A j \in 0..(Len(read) - 1) :
                    j \notin call'.arg.input.lost =>
                        Attr(GetItem(table', SlideKey(call'.id, j)), "slide") = saved[j + 1]]_vars

\* C36: a successful update-slide or refine request never changes the
\* number of slides of the presentation, and the slides after it differ
\* from the slides read only at indices named in affectedSlides.
C36_EditKeepsCount ==
    [][SlidesEdited =>
          LET read == SlidesOf(table, call'.id)
              after == SlidesOf(table', call'.id)
          IN  /\ Len(after) = Len(read)
              /\ \A j \in 1..Len(read) :
                    after[j] # read[j]
                        => (j - 1) \in Named(call'.arg.input.generation.affectedSlides)]_vars

\* The same for a presentation whose slide records are at the indices
\* 0..N-1, as saveSlides leaves them when every put is processed.
EditKeepsCountWhenContiguous ==
    [][(SlidesEdited
           /\ QuerySlides(table, createPK(call'.id))
                  = WrittenKeys(call'.id, SlidesOf(table, call'.id))) =>
          LET read == SlidesOf(table, call'.id)
              after == SlidesOf(table', call'.id)
          IN  /\ Len(after) = Len(read)
              /\ \A j \in 1..Len(read) :
                    after[j] # read[j]
                        => (j - 1) \in Named(call'.arg.input.generation.affectedSlides)]_vars

\* An update of slide 0 was answered 200 with every put processed, and the
\* presentation has two slides of which the second is older than the
\* request: the request read and re-saved one slide, the record at index 1,
\* whose put at index 0 was left unprocessed when the list was generated.
C36_Witness ==
    /\ call.op = "PUT /presentations/{id}/slides/{index}"
    /\ call.arg.response.statusCode = 200
    /\ call.arg.input.lost = {}
    /\ call.prev.op = "saveSlides"
    /\ call.prev.id = call.id
    /\ Len(SlidesOf(table, call.id)) = 2
    /\ table[SlideKey(call.id, 1)].updatedAt < table[SlideKey(call.id, 0)].updatedAt

\* A refine request on two stored slides was answered 200 with an affected
\* entry at index 1 and one at index N = 2, every put processed: the
\* presentation has two slides, the second one refined.
EditWitness ==
    /\ call.op = "POST /presentations/{id}/refine"
    /\ call.arg.response.statusCode = 200
    /\ call.arg.input.lost = {}
    /\ Named(call.arg.input.generation.affectedSlides) = {1, MaxSlides}
    /\ call.prev.op = "saveSlides"
    /\ call.prev.arg = <<"s1", "s2">>
    /\ SlidesOf(table, call.id) = <<"s1", "s3">>

(***************************************************************************)
(* C37: overlapping edits that both report success.                        *)
(***************************************************************************)
\* The slides of the list s, as a set.
Elements(s) == {s[j] : j \in DOMAIN s}

\* The add-slide request of caller c has been answered 200.
AddAnswered(c) == pending[c] # Null /\ pending[c].pc = "done"

\* C37: when two add-slide requests on the same presentation have both been
\* answered 200, the slide of each is in the stored list.
C37_NoLostEdit ==
    \A c, d \in Clients :
        (c # d /\ AddAnswered(c) /\ AddAnswered(d) /\ pending[c].id = pending[d].id) =>
            RefinedSlide(c) \in Elements(SlidesOf(table, pending[c].id))

\* Both requests read the stored list, both were answered 200, and the
\* stored list is the list of the second request, without the slide of the
\* first; no record is left from the first either.
C37_Witness ==
    /\ AddAnswered(1) /\ AddAnswered(2)
    /\ RefinedSlide(2) \notin Elements(pending[1].arg)
    /\ RefinedSlide(1) \notin Elements(pending[2].arg)
    /\ SlidesOf(table, 1) = pending[2].arg
    /\ RefinedSlide(1) \notin Elements(SlidesOf(table, 1))

(***************************************************************************)
(* C38: the records of one event.                                          *)
(***************************************************************************)
\* The presentation of record j of the event of invocation w.
RecordId(w, j) == worker[w].records[j].presentationId

\* The handler of invocation w returns normally in the step: the
\* invocation ends and its messages are deleted from the queue.
HandlerReturns(w) ==
    /\ Running(w)
    /\ worker'[w].pc = "idle"
    /\ \A id \in RecordIds(w) : queue'[id].state = "deleted"

\* The handler of invocation w throws in the step: the invocation ends and
\* its messages are visible again.
HandlerThrows(w) ==
    /\ Running(w)
    /\ worker'[w].pc = "idle"
    /\ \A id \in RecordIds(w) : queue'[id].state = "visible"

\* C38: the handler takes the records of its event in order and one at a
\* time: it starts with the first, and starts record j+1 only when
\* processMessage has returned for record j; when processMessage throws for
\* a record the handler throws and no later record of the event has been
\* processed; the handler returns normally only after processMessage has
\* returned for every record.
C38_RecordsInOrder ==
    /\ [](\A w \in Workers :
             Running(w) =>
                 /\ worker[w].idx \in 1..Len(worker[w].records)
                 /\ \A j \in 1..(worker[w].idx - 1) :
                       StatusOf(table, RecordId(w, j)) = "completed"
                 /\ \A j \in (worker[w].idx + 1)..Len(worker[w].records) :
                       /\ StatusOf(table, RecordId(w, j)) = "processing"
                       /\ statusWrites[RecordId(w, j)] = 0
                       /\ QuerySlides(table, createPK(RecordId(w, j))) = {})
    /\ [][\A w \in Workers :
             /\ (~Running(w) /\ worker'[w].pc # "idle") =>
                    worker'[w].idx = 1 /\ worker'[w].pc = "processMessage"
             /\ (Running(w) /\ worker'[w].pc # "idle") =>
                    /\ worker'[w].records = worker[w].records
                    /\ worker'[w].idx \in {worker[w].idx, worker[w].idx + 1}
                    /\ worker'[w].idx = worker[w].idx + 1 =>
                          worker[w].pc = "done" /\ worker'[w].pc = "processMessage"
             /\ worker[w].pc = "throwing" => HandlerThrows(w)
             /\ HandlerReturns(w) =>
                    /\ worker[w].pc = "done"
                    /\ worker[w].idx = Len(worker[w].records)
                    /\ \A j \in 1..Len(worker[w].records) :
                          StatusOf(table, RecordId(w, j)) = "completed"]_vars

\* The handler has thrown on the first record of an event of two: both
\* messages are back in the queue, delivered once, the presentation of one
\* is failed and the other is still processing, with no slide stored.
C38_Witness ==
    /\ \A w \in Workers : ~Running(w)
    /\ \A id \in EventIds : queue[id].state = "visible" /\ queue[id].receives = 1
    /\ \E id \in EventIds :
          /\ StatusOf(table, id) = "failed"
          /\ \A other \in EventIds \ {id} :
                /\ StatusOf(table, other) = "processing"
                /\ QuerySlides(table, createPK(other)) = {}

\* The handler has returned from an event of two records: both messages
\* are deleted and both presentations completed.
EventDoneWitness ==
    /\ \A w \in Workers : ~Running(w)
    /\ \A id \in EventIds :
          /\ queue[id].state = "deleted" /\ queue[id].receives = 1
          /\ StatusOf(table, id) = "completed"

(***************************************************************************)
(* C39: every enqueued job ends in a terminal status.                      *)
(***************************************************************************)
\* The status of presentation id is completed or failed.
Terminal(id) == StatusOf(table, id) \in TerminalStatuses

\* The run of invocation w is ending by throwing.
EndsByThrowing(w) == worker[w].pc = "throwing"

\* The run of invocation w is ending by throwing what its failed status
\* write threw.
StatusWriteThrew(w) ==
    EndsByThrowing(w) /\ worker[w].thrown \in StoreErrors("failed")

\* C39: every presentation whose job was enqueued eventually has status
\* completed or failed, given that the queue delivers the job and the run
\* is not cut off; a run that ends by throwing has left the status failed.
C39_EventuallyTerminal ==
    /\ \A id \in Ids : (id \in DOMAIN queue) ~> Terminal(id)
    /\ [](\A w \in Workers : EndsByThrowing(w) => StatusOf(table, RunId(w)) = "failed")

\* What holds instead: a run that has started comes to a terminal status of
\* its presentation or to the throw of its failed status write; a run that
\* ends by throwing something else has written failed as its last status,
\* and a run that returns has written completed as its last status.
C39_TerminalUnlessStatusWriteThrows ==
    /\ \A id \in Ids :
          (\E w \in Workers : Running(w) /\ RunId(w) = id)
              ~> (Terminal(id) \/ \E w \in Workers : Running(w) /\ RunId(w) = id
                                                       /\ StatusWriteThrew(w))
    /\ [](\A w \in Workers :
             /\ (EndsByThrowing(w) /\ ~StatusWriteThrew(w)) =>
                    /\ worker[w].wrote # <<>>
                    /\ worker[w].wrote[Len(worker[w].wrote)] = "failed"
             /\ worker[w].pc = "done" =>
                    /\ worker[w].wrote # <<>>
                    /\ worker[w].wrote[Len(worker[w].wrote)] = "completed")
    /\ [][\A w \in Workers :
             (Running(w) /\ worker'[w].pc # "idle"
                  /\ Len(worker'[w].wrote) > Len(worker[w].wrote)) =>
                 StatusOf(table', RunId(w))
                     = worker'[w].wrote[Len(worker'[w].wrote)]]_vars

\* The job has been delivered as often as the queue delivers it, every run
\* ended by the throw of its failed status write, and the presentation is
\* still processing with no run left.
C39_Witness ==
    /\ \A w \in Workers : ~Running(w)
    /\ \A id \in Ids :
          /\ id \in DOMAIN queue
          /\ queue[id].receives = MaxReceives
          /\ queue[id].state = "visible"
          /\ StatusOf(table, id) = "processing"
          /\ statusWrites[id] = 0

====
